---- MODULE Spec2Model ----
(***************************************************************************)
(* A model of the event-driven orchestration core of taskAgentsService:   *)
(* MatchingService (request/reply correlation with timeout), EventBus     *)
(* (per-handler queues) and RecoveryAgent (bounded recovery attempts).    *)
(* Each subsystem has its own specification over its own variables; the   *)
(* variables of the other subsystems stay at their initial values.        *)
(***************************************************************************)
EXTENDS Integers, Sequences, FiniteSets, TLC

(***************************************************************************)
(* Bounds of the model.                                                    *)
(***************************************************************************)
\* number of requestTaskAssignment calls explored
MaxRequests == 2
\* number of events emitted on the EventBus
MaxEvents == 2
\* number of failure events delivered to the RecoveryAgent
MaxFailEvents == 4
\* hours the monitor's clock runs
MaxTime == 3
\* task.timeout events after which no more monitor.task requests are made
MaxTimeouts == 2
\* number of task.declined and task.reassign.requested events published
MaxReassignEvents == 3
\* number of start() and stop() calls made on the agent
MaxAgentCalls == 4
\* number of events published to the agent's handlers
MaxAgentEvents == 2
\* number of matching.request events handed to the bridge
MaxBridgeRequests == 2
\* number of messages delivered to the bridge's consumers
MaxMessages == 2
\* number of connects to RabbitMQ that succeed
MaxConnects == 1
\* number of init() calls made by the application (start-up, publish, consume)
MaxInitCalls == 2
\* retention caps; the source has 10000, 5000 and 1000, and reads them only in
\* comparisons with the length of the list
maxEvents == 2
maxLogs == 2
maxHistorySize == 2
\* number of events emitted or stored
MaxAppends == 6
\* number of Events constructed
MaxConstructed == 3
\* number of Application.shutdown() calls, and of runs of each interval callback
MaxShutdowns == 2
MaxSweeps == 2
\* successful reconnects after the first MaxConnects connects
MaxReconnects == 1
\* consecutive events constructed within one millisecond
EventsPerTick == 2
\* queries of the EventStore
MaxQueries == 1

(***************************************************************************)
(* Small input sets.                                                       *)
(***************************************************************************)
\* correlation ids carried by events
CorrIds == {"c1", "c2"}
\* a falsy correlation id (what handleMatchingResponse guards against)
NoCorr == "none"
\* payloads of form.submitted events
FormData == {"x", "y"}
\* payloads of matching.response events (the external engine's reply)
ReplyData == {"reply"}
\* error details carried by matching.request.failed
ErrorDetails == {"publish_failed"}

VARIABLES
    \* ---- MatchingService ----
    pendingRequests,   \* Map correlationId -> [timeoutId, data]
    timers,            \* armed setTimeout timers: [id, corr, data] (the closure)
    nextTimer,         \* next timer handle
    mEmitted,          \* events MatchingService passed to eventBus.emit, in order
    mInput,            \* what the current step handles: the delivered event or the fired timer
    \* ---- EventBus ----
    listeners,         \* Map eventType -> array of registrations (handlerInfo ids)
    regType,           \* the event type each registration was made for ("none": not made yet)
    queue,             \* handlerInfo.queue, as event ids
    processing,        \* handlerInfo.processing
    coros,             \* running processHandlerQueue calls: [reg, ev, phase]
    stack,             \* the synchronous call stack: emit and handler frames
    immediates,        \* pending setImmediate callbacks, in order: [orig, reg]
    history,           \* eventBus.eventHistory; an event's id is its index
    delivered,         \* per registration, the event ids its handler was called with
    expected,          \* per registration, the event ids emitted for its type while registered
    failures,          \* handler invocations that threw or rejected: [reg, ev, kind]
    \* ---- RecoveryAgent ----
    recoveryAttempts,  \* Map taskId -> attempt count
    rCalls,            \* initiateRecovery calls waiting at `await requestTaskRecovery`
    rTrace,            \* what the agent did, in order: requestTaskRecovery calls and emitted events
    rInput,            \* what the current step handles: the delivered event or the settled request
    rEvents,           \* number of events delivered to the agent
    \* ---- MonitorAgent ----
    taskTimeouts,      \* Map taskId -> [assignedUserId, startTime, timeout]
    taskOrder,         \* the keys of taskTimeouts in insertion order (Map iteration order)
    clock,             \* Date.now(), in hours
    monEmitted,        \* task.timeout events the agent passed to eventBus.emit, in order
    monInput,          \* what the current step handles: an event, the sweep, or time passing
    \* ---- ReassignAgent ----
    raQueue,           \* task.reassign.requested events waiting on the handler's bus queue
    raCall,            \* the handleTaskReassignment invocation waiting at its await
    raEmitted,         \* events the agent passed to eventBus.emit, in order
    raInput,           \* what the current step handles: the delivered event or the settled request
    \* ---- Agent (base class) ----
    isActive,          \* Agent.isActive
    eventHandlers,     \* Agent.eventHandlers: Map eventType -> wrappedHandler
    busHandlers,       \* per event type, the wrappedHandlers the EventBus holds for the agent
    nextHandler,       \* identity of the next wrappedHandler closure
    starting,          \* start() calls waiting at `await this.setup()`
    stopping,          \* stop() calls waiting at `await this.cleanup()`
    agentRuns,         \* wrappedHandler invocations waiting at `await handler.call(this, event)`
    agentEmitted,      \* events the agent emitted through Agent.emit, in order
    agentInput,        \* what the current step was: a call, a resumption, an event, a settled handler
    \* ---- MessageBroker (bridge between the EventBus and RabbitMQ) ----
    isConnected,       \* MessageBroker.isConnected
    publishCall,       \* the handleMatchingRequest invocation waiting at `await this.publishToQueue(...)`
    bridgeEmitted,     \* events the bridge passed to eventBus.emit, in order
    channelOpen,       \* whether the consumers' channel still accepts ack and nack
    awaiting,          \* consumer callbacks waiting at `await Promise.resolve(callback(...))`
    settlements,       \* per delivered message, the ack / nack calls that went through
    bridgeInput,       \* what the current step handled
    \* ---- RabbitMQConnection ----
    connection,        \* RabbitMQConnection.connection: 0 for null, else the connection's number
    isConnecting,      \* RabbitMQConnection.isConnecting
    reconnectAttempts, \* RabbitMQConnection.reconnectAttempts
    channels,          \* names in RabbitMQConnection.channels
    reconnectTimers,   \* armed setTimeout callbacks that will call init()
    connecting,        \* init() calls waiting at `await amqplib.connect(...)`
    settingUp,         \* init() calls waiting in the _setup...() calls after a connect
    closingConnection, \* _handleReconnect() calls waiting at `await this.connection.close()`
    closingChannels,   \* _handleReconnect() calls waiting at `await channel.close()`
    fired,             \* "error" / "close" events the connections have emitted so far
    connects,          \* successful connects so far (the number of the latest connection)
    health,            \* status of the latest MessageBroker.healthCheck()
    connInput,         \* what the current step was
    \* ---- EventStore, AuditService log and EventBus history as wired by the Application ----
    events,            \* EventStore.events
    eventsByType,      \* EventStore.eventsByType: Map type -> stored events
    eventsByCorrelation, \* EventStore.eventsByCorrelation: Map correlationId -> stored events
    auditLogs,         \* AuditService.auditLogs
    eventHistory,      \* EventBus.eventHistory
    storeInput,        \* the event of the current step, how it came in, and the appends so far
    \* ---- Event objects constructed so far ----
    constructedEvents, \* the Events constructed, each with the arguments it was given
    uuidCalls,         \* number of uuidv4() calls made so far
    \* ---- Application: start, shutdown and the two interval timers ----
    appPhase,          \* how far Application.start() has come
    isRunning,         \* Application.isRunning
    agentsActive,      \* isActive of each agent in Application.agents
    cleanupInterval,   \* whether MatchingService.cleanupInterval holds a running interval
    monitoringInterval, \* whether MonitorAgent.monitoringInterval holds a running interval
    shutdownCalls,     \* the shutdown() calls made so far and the await each one is at
    sweepRuns,         \* how often each interval callback has run
    appInput,          \* what the current step was
    \* ---- MatchingService: time, and the periodic sweep of the pending requests ----
    mNow,              \* Date.now(), in units of the request timeout
    timestamps,        \* the timestamp field of each pending entry
    armedAt,           \* per armed timer, the time setTimeout was called
    pendingOrder,      \* the keys of pendingRequests in insertion order (Map iteration order)
    uncaught,          \* an exception left a timer callback and ended the process
    sweepInput,        \* what the current step was, and the number of sweeps so far
    \* ---- the events of the causal chains of the submitted forms ----
    chainEvents,       \* events emitted so far: type, correlationId, and the correlationId of the form.submitted they follow from
    \* ---- MessageBroker consumers across a reconnect ----
    consumers,         \* consumers registered with channel.consume: [queue, conn], conn the connection of their channel
    consumingStep,     \* how far startConsuming() has come: the number of consumeFromQueue calls done
    brokerQueues,      \* per queue, the messages waiting at the broker for a consumer
    inboundEmitted,    \* events the bridge handlers emitted for consumed messages, in order
    resumeInput,       \* what the current step was
    \* ---- Application.start() and the inbound messages ----
    startPc,           \* the await of StartAwaits at which start() waits (0: not called, past the last: through)
    registered,        \* the queues whose consumer is registered
    agentsSubscribed,  \* whether startAllComponents has called every agent's start(), whose setup() subscribes
    backlog,           \* per queue, the messages waiting at the broker
    startupEmitted,    \* per consumed message, the event type emitted and whether the agents were subscribed
    startupInput,      \* what the current step was
    \* ---- EventStore read queries ----
    queryResult,       \* the array the latest query returned
    queryInput         \* the latest query: its kind and its filters

matchingVars == <<pendingRequests, timers, nextTimer, mEmitted, mInput>>
busVars == <<listeners, regType, queue, processing, coros, stack, immediates,
             history, delivered, expected, failures>>
recoveryVars == <<recoveryAttempts, rCalls, rTrace, rInput, rEvents>>
monitorVars == <<taskTimeouts, taskOrder, clock, monEmitted, monInput>>
reassignVars == <<raQueue, raCall, raEmitted, raInput>>
agentVars == <<isActive, eventHandlers, busHandlers, nextHandler, starting, stopping,
               agentRuns, agentEmitted, agentInput>>
bridgeVars == <<isConnected, publishCall, bridgeEmitted, channelOpen, awaiting, settlements,
                bridgeInput>>
connectionVars == <<connection, isConnecting, reconnectAttempts, channels, reconnectTimers,
                    connecting, settingUp, closingConnection, closingChannels, fired,
                    connects, health, connInput>>
storeVars == <<events, eventsByType, eventsByCorrelation, auditLogs, eventHistory, storeInput>>
eventVars == <<constructedEvents, uuidCalls>>
appVars == <<appPhase, isRunning, agentsActive, cleanupInterval, monitoringInterval, shutdownCalls, sweepRuns, appInput>>
sweepVars == <<mNow, timestamps, armedAt, pendingOrder, uncaught, sweepInput>>
chainVars == <<chainEvents>>
resumeVars == <<consumers, consumingStep, brokerQueues, inboundEmitted, resumeInput>>
startupVars == <<startPc, registered, agentsSubscribed, backlog, startupEmitted, startupInput>>
queryVars == <<queryResult, queryInput>>
vars == <<matchingVars, busVars, recoveryVars, monitorVars, reassignVars, agentVars,
          bridgeVars, connectionVars,
          storeVars,
          eventVars,
          appVars,
          sweepVars,
          chainVars,
          resumeVars,
          startupVars,
          queryVars>>

\* the variables each component leaves alone
exceptMatching ==
    <<busVars, recoveryVars, monitorVars, reassignVars, agentVars, bridgeVars,
      connectionVars,
      storeVars,
      eventVars,
      appVars,
      sweepVars,
      chainVars,
      resumeVars,
      startupVars,
      queryVars>>
exceptBus ==
    <<matchingVars, recoveryVars, monitorVars, reassignVars, agentVars, bridgeVars,
      connectionVars,
      storeVars,
      eventVars,
      appVars,
      sweepVars,
      chainVars,
      resumeVars,
      startupVars,
      queryVars>>
exceptRecovery ==
    <<matchingVars, busVars, monitorVars, reassignVars, agentVars, bridgeVars,
      connectionVars,
      storeVars,
      eventVars,
      appVars,
      sweepVars,
      chainVars,
      resumeVars,
      startupVars,
      queryVars>>
exceptMonitor ==
    <<matchingVars, busVars, recoveryVars, reassignVars, agentVars, bridgeVars,
      connectionVars,
      storeVars,
      eventVars,
      appVars,
      sweepVars,
      chainVars,
      resumeVars,
      startupVars,
      queryVars>>
exceptAgent ==
    <<matchingVars, busVars, recoveryVars, monitorVars, reassignVars, bridgeVars,
      connectionVars,
      storeVars,
      eventVars,
      appVars,
      sweepVars,
      chainVars,
      resumeVars,
      startupVars,
      queryVars>>
exceptBridge ==
    <<matchingVars, busVars, recoveryVars, monitorVars, reassignVars, agentVars,
      connectionVars,
      storeVars,
      eventVars,
      appVars,
      sweepVars,
      chainVars,
      resumeVars,
      startupVars,
      queryVars>>
exceptConnection ==
    <<matchingVars, busVars, recoveryVars, monitorVars, reassignVars, agentVars,
      storeVars,
      eventVars,
      appVars,
      sweepVars,
      chainVars,
      resumeVars,
      startupVars,
      queryVars>>
exceptStore ==
    <<matchingVars, busVars, recoveryVars, monitorVars, reassignVars, agentVars, bridgeVars, connectionVars,
      eventVars,
      appVars,
      sweepVars,
      chainVars,
      resumeVars,
      startupVars,
      queryVars>>
exceptStore_Query ==
    <<matchingVars, busVars, recoveryVars, monitorVars, reassignVars, agentVars, bridgeVars, connectionVars,
      eventVars,
      appVars,
      sweepVars,
      chainVars,
      resumeVars,
      startupVars>>
exceptEvent ==
    <<matchingVars, busVars, recoveryVars, monitorVars, reassignVars, agentVars, bridgeVars, connectionVars, storeVars,
      appVars,
      sweepVars,
      chainVars,
      resumeVars,
      startupVars,
      queryVars>>
exceptApp ==
    <<matchingVars, busVars, recoveryVars, monitorVars, reassignVars, agentVars, bridgeVars, connectionVars, storeVars, eventVars,
      sweepVars,
      chainVars,
      resumeVars,
      startupVars,
      queryVars>>
exceptSweep ==
    <<busVars, recoveryVars, monitorVars, reassignVars, agentVars, bridgeVars, connectionVars, storeVars, eventVars, appVars,
      chainVars,
      resumeVars,
      startupVars,
      queryVars>>
exceptChain ==
    <<matchingVars, busVars, recoveryVars, monitorVars, reassignVars, agentVars, bridgeVars, connectionVars, storeVars, eventVars, appVars, sweepVars,
      resumeVars,
      startupVars,
      queryVars>>
exceptResume ==
    <<matchingVars, busVars, recoveryVars, monitorVars, reassignVars, agentVars, bridgeVars, connectionVars, storeVars, eventVars, appVars, sweepVars, chainVars,
      startupVars,
      queryVars>>
exceptConnection_Resume ==
    <<matchingVars, busVars, recoveryVars, monitorVars, reassignVars, agentVars, bridgeVars,
      storeVars, eventVars, appVars, sweepVars, chainVars,
      startupVars,
      queryVars>>
exceptStartup ==
    <<matchingVars, busVars, recoveryVars, monitorVars, reassignVars, agentVars, bridgeVars, connectionVars, storeVars, eventVars, appVars, sweepVars, chainVars, resumeVars,
      queryVars>>
exceptQuery ==
    <<matchingVars, busVars, recoveryVars, monitorVars, reassignVars, agentVars, bridgeVars, connectionVars, storeVars, eventVars, appVars, sweepVars, chainVars, resumeVars, startupVars>>
exceptReassign ==
    <<matchingVars, busVars, recoveryVars, monitorVars, agentVars, bridgeVars,
      connectionVars,
      storeVars,
      eventVars,
      appVars,
      sweepVars,
      chainVars,
      resumeVars,
      startupVars,
      queryVars>>
exceptWired ==
    <<busVars, monitorVars, reassignVars, agentVars, bridgeVars, connectionVars,
      storeVars,
      eventVars,
      appVars,
      sweepVars,
      chainVars,
      resumeVars,
      startupVars,
      queryVars>>

(***************************************************************************)
(* Helpers: a JavaScript Map as a function on its key set.                 *)
(***************************************************************************)
MapSet(m, k, v) == [x \in (DOMAIN m) \cup {k} |-> IF x = k THEN v ELSE m[x]]
MapDelete(m, k) == [x \in (DOMAIN m) \ {k} |-> m[x]]
MapHas(m, k) == k \in DOMAIN m
EmptyMap == [x \in {} |-> 0]
Range(s) == {s[i] : i \in 1..Len(s)}

\* new Event({type, data, correlationId, source}) as far as the model reads it
NewEvent(type, corr, data, reason) ==
    [type |-> type, corr |-> corr, data |-> data, reason |-> reason]

(***************************************************************************)
(* EventBus                                                                *)
(*                                                                         *)
(* JavaScript runs one synchronous call chain to completion: `stack` is   *)
(* that chain.  emit() calls processHandlerQueue() for each registration  *)
(* in turn, and processHandlerQueue() calls the handler synchronously up  *)
(* to its first await, so a handler's synchronous part (which may itself  *)
(* call emit) runs inside the emit that delivers to it.  Everything else  *)
(* (a promise settling, the drain loop resuming, setImmediate callbacks,  *)
(* on/off, outside publishers) runs when the stack is empty.               *)
(***************************************************************************)
\* handlerInfo objects (registrations) that can be created
Regs == {1, 2}
\* event types published by components
PubTypes == {"a", "b"}
ErrorType == "handler.error"
EventTypes == PubTypes \cup {ErrorType}
\* what a handler throws or rejects with: an Error, or null/undefined
ThrownKinds == {"Error", "nullish"}

\* new Event(...) for an event published by a component; corr = 0 stands for
\* no correlationId given: the constructor generates one (here the event's id)
PlainEvent(type, corr) ==
    [type |-> type, corr |-> corr, orig |-> 0, handler |-> 0, detail |-> ""]

\* the handler.error event built in safeExecuteHandler's setImmediate callback
HandlerErrorEvent(orig, reg) ==
    [type |-> ErrorType, corr |-> history[orig].corr, orig |-> orig,
     handler |-> reg, detail |-> "message"]

EmitFrame(ev, rest) == [k |-> "emit", ev |-> ev, rest |-> rest, reg |-> 0, nested |-> FALSE]
HandlerFrame(reg, ev) == [k |-> "handler", ev |-> ev, rest |-> <<>>, reg |-> reg, nested |-> FALSE]
Top == stack[Len(stack)]
Pop == SubSeq(stack, 1, Len(stack) - 1)
Idle == stack = <<>>

Registered(r) == \E i \in 1..Len(listeners[regType[r]]) : listeners[regType[r]][i] = r

\* EventBus.on(eventType, handler): a fresh handlerInfo is pushed on the array
on(r, type) ==
    /\ listeners' = [listeners EXCEPT ![type] = Append(@, r)]
    /\ regType' = [regType EXCEPT ![r] = type]
    /\ queue' = [queue EXCEPT ![r] = <<>>]
    /\ processing' = [processing EXCEPT ![r] = FALSE]

\* EventBus.off(eventType, handler): the array is replaced by a filtered copy
off(r, type) ==
    listeners' = [listeners EXCEPT ![type] = SelectSeq(@, LAMBDA h : h # r)]

\* EventBus.addToHistory(event) for the new event, and the registrations that
\* are subscribed to its type at this moment
addToHistory(event) ==
    /\ history' = Append(history,
          IF event.corr = 0 THEN [event EXCEPT !.corr = Len(history) + 1] ELSE event)
    /\ expected' = [r \in Regs |->
          IF regType[r] = event.type /\ Registered(r)
          THEN Append(expected[r], Len(history) + 1) ELSE expected[r]]

\* EventBus.emit(event), up to its forEach: the event enters the history and
\* the forEach over the current array of handlers is put on the stack
emit(event, under) ==
    /\ addToHistory(event)
    /\ stack' = Append(under, EmitFrame(Len(history) + 1, listeners[event.type]))

\* mutant: processHandlerQueue without its "if (handlerInfo.processing) return"
DrainStarts_NoGuard(r) == TRUE

\* processHandlerQueue's entry test: a drain is started only when none runs
DrainStarts(r) == ~processing[r]

\* one turn of emit's forEach: queue.push(event); processHandlerQueue(handlerInfo),
\* which, when it starts a drain, shifts the first event and calls the handler
EmitStep ==
    /\ ~Idle /\ Top.k = "emit" /\ Top.rest # <<>>
    /\ LET r == Head(Top.rest)
           pushed == Append(queue[r], Top.ev)
           rest == [Top EXCEPT !.rest = Tail(Top.rest)]
       IN  IF DrainStarts(r)
           THEN /\ processing' = [processing EXCEPT ![r] = TRUE]
                /\ queue' = [queue EXCEPT ![r] = Tail(pushed)]
                /\ coros' = coros \cup {[reg |-> r, ev |-> Head(pushed), phase |-> "sync"]}
                /\ delivered' = [delivered EXCEPT ![r] = Append(@, Head(pushed))]
                /\ stack' = Append(Append(Pop, rest), HandlerFrame(r, Head(pushed)))
           ELSE /\ queue' = [queue EXCEPT ![r] = pushed]
                /\ stack' = Append(Pop, rest)
                /\ UNCHANGED <<processing, coros, delivered>>
    /\ UNCHANGED <<listeners, regType, immediates, history, expected, failures>>

\* emit's forEach is over: emit returns to its caller
EmitReturn ==
    /\ ~Idle /\ Top.k = "emit" /\ Top.rest = <<>>
    /\ stack' = Pop
    /\ UNCHANGED <<listeners, regType, queue, processing, coros, immediates,
                   history, delivered, expected, failures>>

\* a handler calls eventBus.emit in its synchronous part (at most once here)
HandlerPublish ==
    /\ ~Idle /\ Top.k = "handler" /\ ~Top.nested
    /\ Len(history) < MaxEvents
    /\ \E type \in PubTypes :
          emit(PlainEvent(type, history[Top.ev].corr),
               Append(Pop, [Top EXCEPT !.nested = TRUE]))
    /\ UNCHANGED <<listeners, regType, queue, processing, coros, immediates,
                   delivered, failures>>

\* safeExecuteHandler's catch block for a handler that threw or rejected with
\* `kind`: it reads error.message, which itself throws a TypeError when the
\* error is null or undefined, so that no setImmediate is scheduled and
\* processHandlerQueue rejects with processing left true
caught(co, kind) ==
    /\ failures' = failures \cup {[reg |-> co.reg, ev |-> co.ev, kind |-> kind]}
    /\ IF kind = "nullish"
       THEN /\ coros' = (coros \ {co}) \cup {[co EXCEPT !.phase = "dead"]}
            /\ UNCHANGED immediates
       ELSE /\ coros' = (coros \ {co}) \cup {[co EXCEPT !.phase = "resume"]}
            /\ immediates' = Append(immediates, [orig |-> co.ev, reg |-> co.reg])

\* the handler's synchronous part ends and safeExecuteHandler awaits its result
\* (a synchronous throw reaches the same catch block as a rejected promise and
\* is taken as a promise that rejects at once)
HandlerReturn ==
    /\ ~Idle /\ Top.k = "handler"
    /\ LET co == [reg |-> Top.reg, ev |-> Top.ev, phase |-> "sync"] IN
          coros' = (coros \ {co}) \cup {[co EXCEPT !.phase = "pending"]}
    /\ stack' = Pop
    /\ UNCHANGED <<listeners, regType, queue, processing, immediates, history,
                   delivered, expected, failures>>

\* the promise returned by a handler settles: it resolves, or it rejects
HandlerSettles ==
    /\ Idle
    /\ \E co \in coros :
          /\ co.phase = "pending"
          /\ \/ /\ coros' = (coros \ {co}) \cup {[co EXCEPT !.phase = "resume"]}
                /\ UNCHANGED <<immediates, failures>>
             \/ \E kind \in ThrownKinds : caught(co, kind)
    /\ UNCHANGED <<listeners, regType, queue, processing, stack, history,
                   delivered, expected>>

\* processHandlerQueue resumes after its await: the while loop takes the next
\* event and calls the handler, or ends and clears the processing flag
processHandlerQueue ==
    /\ Idle
    /\ \E co \in coros :
          /\ co.phase = "resume"
          /\ LET r == co.reg IN
             IF queue[r] # <<>>
             THEN /\ queue' = [queue EXCEPT ![r] = Tail(@)]
                  /\ coros' = (coros \ {co}) \cup
                        {[reg |-> r, ev |-> Head(queue[r]), phase |-> "sync"]}
                  /\ delivered' = [delivered EXCEPT ![r] = Append(@, Head(queue[r]))]
                  /\ stack' = <<HandlerFrame(r, Head(queue[r]))>>
                  /\ UNCHANGED processing
             ELSE /\ processing' = [processing EXCEPT ![r] = FALSE]
                  /\ coros' = coros \ {co}
                  /\ UNCHANGED <<queue, delivered, stack>>
    /\ UNCHANGED <<listeners, regType, immediates, history, expected, failures>>

\* the setImmediate callback of safeExecuteHandler emits the handler.error event
RunImmediate ==
    /\ Idle /\ immediates # <<>>
    /\ Len(history) < MaxEvents
    /\ emit(HandlerErrorEvent(Head(immediates).orig, Head(immediates).reg), <<>>)
    /\ immediates' = Tail(immediates)
    /\ UNCHANGED <<listeners, regType, queue, processing, coros, delivered, failures>>

\* a component outside the handlers publishes an event
Publish ==
    /\ Idle
    /\ Len(history) < MaxEvents
    /\ \E type \in PubTypes : emit(PlainEvent(type, 0), <<>>)
    /\ UNCHANGED <<listeners, regType, queue, processing, coros, immediates,
                   delivered, failures>>

\* a component subscribes a new handler
Subscribe ==
    /\ Idle
    /\ \E r \in Regs, type \in EventTypes :
          /\ regType[r] = "none"
          /\ \A q \in Regs : q < r => regType[q] # "none"
          /\ on(r, type)
    /\ UNCHANGED <<coros, stack, immediates, history, delivered, expected, failures>>

\* a component unsubscribes a handler
Unsubscribe ==
    /\ Idle
    /\ \E r \in Regs :
          /\ regType[r] # "none" /\ Registered(r)
          /\ off(r, regType[r])
    /\ UNCHANGED <<regType, queue, processing, coros, stack, immediates, history,
                   delivered, expected, failures>>

BusStart ==
    /\ listeners = [t \in EventTypes |-> <<>>]
    /\ regType = [r \in Regs |-> "none"]
    /\ queue = [r \in Regs |-> <<>>]
    /\ processing = [r \in Regs |-> FALSE]
    /\ coros = {}
    /\ stack = <<>>
    /\ immediates = <<>>
    /\ history = <<>>
    /\ delivered = [r \in Regs |-> <<>>]
    /\ expected = [r \in Regs |-> <<>>]
    /\ failures = {}

(***************************************************************************)
(* RecoveryAgent                                                           *)
(*                                                                         *)
(* The agent registers one handler per event type, so the bus runs at     *)
(* most one invocation of each handler at a time, and invocations of      *)
(* different handlers interleave at their awaits.  A handler runs          *)
(* synchronously up to `await this.matchingService.requestTaskRecovery`;  *)
(* the rest of initiateRecovery runs when that promise settles.  The       *)
(* matchingService is handed to the constructor: its call is recorded,    *)
(* and what it resolves with is chosen from RecoveryResults.               *)
(***************************************************************************)
maxRecoveryAttempts == 3
\* task / form ids carried by the events
TaskIds == {"F1"}
nonRecoverableReasons == {"invalid_form_data", "malformed_request", "authentication_failure"}
\* event.data.reason of the failure events
FailureReasons == {"Timeout", "invalid_form_data"}
\* what requestTaskRecovery resolves with: {success: true}, {success: false,
\* reason}, or undefined (MatchingService.requestTaskRecovery returns nothing,
\* and reading recoveryResult.success then throws a TypeError)
RecoveryResults == {"success", "failure", "undefined"}
\* recoveryResult.reason of an unsuccessful result
ResultReason == "no_match"
\* error.message of the TypeError
TypeErrorMessage == "Cannot read properties of undefined"
MaxExceeded == "max_recovery_attempts_exceeded"

Entry(k, type, task, reason, n) ==
    [k |-> k, type |-> type, task |-> task, reason |-> reason, n |-> n]

\* the agent's fields, threaded through the calls of one synchronous run
Here == [attempts |-> recoveryAttempts, calls |-> rCalls, trace |-> rTrace]
Become(st) ==
    /\ recoveryAttempts' = st.attempts
    /\ rCalls' = st.calls
    /\ rTrace' = st.trace
Log(st, entry) == [st EXCEPT !.trace = Append(@, entry)]
NoInput == Entry("none", "", "", "", 0)

\* RecoveryAgent.getRecoveryAttemptCount(taskId)
getRecoveryAttemptCount(st, taskId) ==
    IF MapHas(st.attempts, taskId) THEN st.attempts[taskId] ELSE 0

\* RecoveryAgent.incrementRecoveryAttempt(taskId)
incrementRecoveryAttempt(st, taskId) ==
    LET currentCount == getRecoveryAttemptCount(st, taskId) IN
    [st EXCEPT !.attempts = MapSet(@, taskId, currentCount + 1)]

\* mutant: shouldAttemptRecovery without its list of non-recoverable reasons
shouldAttemptRecovery_IgnoresReason(st, taskId, reason) ==
    IF getRecoveryAttemptCount(st, taskId) >= maxRecoveryAttempts
    THEN FALSE
    ELSE TRUE

\* RecoveryAgent.shouldAttemptRecovery(taskId, reason)
shouldAttemptRecovery(st, taskId, reason) ==
    IF getRecoveryAttemptCount(st, taskId) >= maxRecoveryAttempts
    THEN FALSE
    ELSE reason \notin nonRecoverableReasons

\* an escalation that emits task.escalated but keeps the counter
escalateTask_KeepsCounter(st, taskId, reason) ==
    Log(st, Entry("emit", "task.escalated", taskId, reason, 0))

\* RecoveryAgent.escalateTask(taskId, reason)
escalateTask(st, taskId, reason) ==
    Log([st EXCEPT !.attempts = MapDelete(@, taskId)],
        Entry("emit", "task.escalated", taskId, reason, 0))

\* RecoveryAgent.initiateRecovery(taskId, recoveryInfo), up to its await;
\* h is the handler that called it
initiateRecovery(st, h, taskId, recoveryType) ==
    LET attemptCount == getRecoveryAttemptCount(st, taskId) IN
    IF attemptCount >= maxRecoveryAttempts
    THEN escalateTask(st, taskId, MaxExceeded)
    ELSE LET counted == incrementRecoveryAttempt(st, taskId)
             asked == Log(counted,
                          Entry("request", recoveryType, taskId, "", attemptCount + 1))
         IN  [asked EXCEPT !.calls = @ \cup
                 {[h |-> h, taskId |-> taskId, attemptCount |-> attemptCount,
                   recoveryType |-> recoveryType]}]

\* mutant: a successful recovery emits task.recovered but keeps the counter
recoveryReturned_KeepsCounter(st, call, result) ==
    LET back == [st EXCEPT !.calls = @ \ {call}]
    IN  IF result = "success"
        THEN Log(back,
                 Entry("emit", "task.recovered", call.taskId, "", call.attemptCount + 1))
        ELSE IF call.attemptCount + 1 >= maxRecoveryAttempts
        THEN escalateTask(back, call.taskId,
                          IF result = "failure" THEN ResultReason ELSE TypeErrorMessage)
        ELSE back

\* RecoveryAgent.initiateRecovery after its await: call is the suspended
\* invocation, result what requestTaskRecovery resolved with
recoveryReturned(st, call, result) ==
    LET back == [st EXCEPT !.calls = @ \ {call}]
    IN  IF result = "success"
        THEN Log([back EXCEPT !.attempts = MapDelete(@, call.taskId)],
                 Entry("emit", "task.recovered", call.taskId, "", call.attemptCount + 1))
        ELSE IF call.attemptCount + 1 >= maxRecoveryAttempts
        THEN escalateTask(back, call.taskId,
                          IF result = "failure" THEN ResultReason ELSE TypeErrorMessage)
        ELSE back

\* RecoveryAgent.handleTaskTimeout(event)
handleTaskTimeout(st, event) ==
    initiateRecovery(st, event.type, event.task, "timeout_recovery")

\* RecoveryAgent.handleAssignmentFailure(event)
handleAssignmentFailure(st, event) ==
    IF shouldAttemptRecovery(st, event.task, event.reason)
    THEN initiateRecovery(st, event.type, event.task, "assignment_recovery")
    ELSE escalateTask(st, event.task, MaxExceeded)

\* RecoveryAgent.handleReassignmentFailure(event)
handleReassignmentFailure(st, event) ==
    initiateRecovery(st, event.type, event.task, "reassignment_recovery")

\* RecoveryAgent.handleRecoveryRequest(event)
handleRecoveryRequest(st, event) ==
    initiateRecovery(st, event.type, event.task, "manual_recovery")

\* the bus delivers event to its handler, whose synchronous run ends in `after`
Deliver(event, after) ==
    /\ rEvents < MaxFailEvents
    /\ rEvents' = rEvents + 1
    /\ rInput' = event
    /\ Become(after)

\* the bus hands an event to a handler only when the handler's previous
\* invocation has settled (one registration per event type, see Agent.on)
HandlerFree(type) == ~\E c \in rCalls : c.h = type

\* the bus hands a task.timeout event to the agent
TaskTimeout ==
    /\ HandlerFree("task.timeout")
    /\ \E t \in TaskIds :
          LET event == Entry("event", "task.timeout", t, "timeout", 0) IN
          Deliver(event, handleTaskTimeout(Here, event))
    /\ UNCHANGED exceptRecovery

\* the bus hands an assignment.failed event to the agent
AssignmentFailure ==
    /\ HandlerFree("assignment.failed")
    /\ \E t \in TaskIds, reason \in FailureReasons :
          LET event == Entry("event", "assignment.failed", t, reason, 0) IN
          Deliver(event, handleAssignmentFailure(Here, event))
    /\ UNCHANGED exceptRecovery

\* the bus hands a reassignment.failed event to the agent
ReassignmentFailure ==
    /\ HandlerFree("reassignment.failed")
    /\ \E t \in TaskIds :
          LET event == Entry("event", "reassignment.failed", t, "Timeout", 0) IN
          Deliver(event, handleReassignmentFailure(Here, event))
    /\ UNCHANGED exceptRecovery

\* the bus hands a task.recovery.requested event to the agent
RecoveryRequest ==
    /\ HandlerFree("task.recovery.requested")
    /\ \E t \in TaskIds :
          LET event == Entry("event", "task.recovery.requested", t, "manual", 0) IN
          Deliver(event, handleRecoveryRequest(Here, event))
    /\ UNCHANGED exceptRecovery

\* the promise of requestTaskRecovery settles and initiateRecovery goes on
RecoveryReturns ==
    /\ \E call \in rCalls, result \in RecoveryResults :
          /\ rInput' = Entry("result", result, call.taskId, call.h, call.attemptCount + 1)
          /\ Become(recoveryReturned(Here, call, result))
    /\ UNCHANGED rEvents
    /\ UNCHANGED exceptRecovery

RecoveryStart ==
    /\ recoveryAttempts = EmptyMap
    /\ rCalls = {}
    /\ rTrace = <<>>
    /\ rInput = NoInput
    /\ rEvents = 0

(***************************************************************************)
(* MatchingService                                                         *)
(***************************************************************************)
\* clearTimeout(id)
clearTimeout(ts, id) == {t \in ts : t.id # id}

\* MatchingService.requestTaskAssignment(event)
requestTaskAssignment(event) ==
    LET timeoutId == nextTimer IN
    /\ timers' = timers \cup
          {[id |-> timeoutId, corr |-> event.corr, data |-> event.data]}
    /\ nextTimer' = nextTimer + 1
    /\ pendingRequests' = MapSet(pendingRequests, event.corr,
                                 [timeoutId |-> timeoutId, data |-> event.data])
    /\ mEmitted' = Append(mEmitted,
                          NewEvent("matching.request", event.corr, event.data, ""))

\* mutant: the callback without its "if (!pending) return" guard
timeoutCallback_NoGuard(t) ==
    /\ timers' = timers \ {t}
    /\ pendingRequests' = MapDelete(pendingRequests, t.corr)
    /\ mEmitted' = Append(mEmitted,
           NewEvent("assignment.failed", t.corr, t.data, "Timeout"))
    /\ UNCHANGED nextTimer

\* the setTimeout callback armed by requestTaskAssignment; t is the fired timer
timeoutCallback(t) ==
    /\ timers' = timers \ {t}
    /\ IF ~MapHas(pendingRequests, t.corr)
       THEN UNCHANGED <<pendingRequests, mEmitted>>
       ELSE /\ pendingRequests' = MapDelete(pendingRequests, t.corr)
            /\ mEmitted' = Append(mEmitted,
                   NewEvent("assignment.failed", t.corr, t.data, "Timeout"))
    /\ UNCHANGED nextTimer

\* mutant: the reply handler emits before (and without) removing the entry
handleMatchingResponse_KeepsEntry(event) ==
    IF event.corr = NoCorr \/ ~MapHas(pendingRequests, event.corr)
    THEN UNCHANGED <<pendingRequests, timers, nextTimer, mEmitted>>
    ELSE /\ mEmitted' = Append(mEmitted,
                NewEvent("task.assigned", event.corr, event.data, ""))
         /\ UNCHANGED <<pendingRequests, timers, nextTimer>>

\* mutant: task.assigned carries the stored request payload, not the reply
handleMatchingResponse_StoredData(event) ==
    IF event.corr = NoCorr \/ ~MapHas(pendingRequests, event.corr)
    THEN UNCHANGED <<pendingRequests, timers, nextTimer, mEmitted>>
    ELSE /\ timers' = clearTimeout(timers, pendingRequests[event.corr].timeoutId)
         /\ pendingRequests' = MapDelete(pendingRequests, event.corr)
         /\ mEmitted' = Append(mEmitted,
                NewEvent("task.assigned", event.corr,
                         pendingRequests[event.corr].data, ""))
         /\ UNCHANGED nextTimer

\* MatchingService.handleMatchingResponse(event)
handleMatchingResponse(event) ==
    IF event.corr = NoCorr \/ ~MapHas(pendingRequests, event.corr)
    THEN UNCHANGED <<pendingRequests, timers, nextTimer, mEmitted>>
    ELSE /\ timers' = clearTimeout(timers, pendingRequests[event.corr].timeoutId)
         /\ pendingRequests' = MapDelete(pendingRequests, event.corr)
         /\ mEmitted' = Append(mEmitted,
                NewEvent("task.assigned", event.corr, event.data, ""))
         /\ UNCHANGED nextTimer

\* a failure handler without its "if (!pending) return"
handleRequestFailed_NoGuard(event) ==
    LET correlationId == event.data.correlationId IN
    /\ timers' = {t \in timers : t.corr # correlationId}
    /\ pendingRequests' = MapDelete(pendingRequests, correlationId)
    /\ mEmitted' = Append(mEmitted,
           NewEvent("assignment.failed", correlationId, "", "Matching request failed"))
    /\ UNCHANGED nextTimer

\* MatchingService.handleRequestFailed(event); event.data = {correlationId, error}
handleRequestFailed(event) ==
    LET correlationId == event.data.correlationId IN
    IF ~MapHas(pendingRequests, correlationId)
    THEN UNCHANGED <<pendingRequests, timers, nextTimer, mEmitted>>
    ELSE /\ timers' = clearTimeout(timers, pendingRequests[correlationId].timeoutId)
         /\ pendingRequests' = MapDelete(pendingRequests, correlationId)
         /\ mEmitted' = Append(mEmitted,
                NewEvent("assignment.failed", correlationId,
                         pendingRequests[correlationId].data,
                         "Matching request failed"))
         /\ UNCHANGED nextTimer

\* AssignAgent.handleFormSubmission(event): forwards to the MatchingService
handleFormSubmission(event) == requestTaskAssignment(event)

(***************************************************************************)
(* Steps of the MatchingService specification.  The bus delivering an     *)
(* event to a handler is the handler's action; the environment chooses    *)
(* the event.                                                              *)
(***************************************************************************)
NumRequests == Len(SelectSeq(mEmitted, LAMBDA e : e.type = "matching.request"))

\* the bus hands a form.submitted event to AssignAgent
FormSubmitted ==
    /\ NumRequests < MaxRequests
    /\ \E c \in CorrIds, d \in FormData :
          LET event == NewEvent("form.submitted", c, d, "") IN
          /\ mInput' = event
          /\ handleFormSubmission(event)
    /\ UNCHANGED exceptMatching

\* the bus hands a matching.response event to MatchingService
MatchingResponse ==
    \E c \in CorrIds \cup {NoCorr}, d \in ReplyData :
        LET event == NewEvent("matching.response", c, d, "") IN
        /\ mInput' = event
        /\ handleMatchingResponse(event)
        /\ UNCHANGED exceptMatching

\* the bus hands a matching.request.failed event to MatchingService
RequestFailed ==
    \E c \in CorrIds, err \in ErrorDetails :
        LET event == NewEvent("matching.request.failed", c,
                              [correlationId |-> c, error |-> err], "") IN
        /\ mInput' = event
        /\ handleRequestFailed(event)
        /\ UNCHANGED exceptMatching

\* an armed timer expires and its callback runs
TimerExpire ==
    \E t \in timers :
        /\ mInput' = [type |-> "timeout", corr |-> t.corr, data |-> t.id, reason |-> ""]
        /\ timeoutCallback(t)
        /\ UNCHANGED exceptMatching

MatchingStart ==
    /\ pendingRequests = EmptyMap
    /\ timers = {}
    /\ nextTimer = 1
    /\ mEmitted = <<>>
    /\ mInput = [type |-> "none", corr |-> NoCorr, data |-> "", reason |-> ""]

(***************************************************************************)
(* MonitorAgent                                                            *)
(*                                                                         *)
(* The handlers and the periodic sweep have no await before their last    *)
(* statement, so each runs to completion as one step.  The only            *)
(* subscriber of task.timeout (RecoveryAgent) emits nothing the monitor   *)
(* listens to in its synchronous part, so the sweep's emits do not         *)
(* re-enter the monitor.                                                   *)
(***************************************************************************)
\* this.defaultTimeout: one hour, the unit of the model's clock
defaultTimeout == 1
MonitorTaskIds == {"T1", "T2"}
UserIds == {"u1", "u2"}

\* the task.timeout event built by the sweep or by handleMonitorRequest
TimeoutEvent(taskId, assignee, timeoutReason, elapsed) ==
    [type |-> "task.timeout", taskId |-> taskId, assignee |-> assignee,
     timeoutReason |-> timeoutReason, elapsed |-> elapsed]

\* MonitorAgent.startTaskMonitoring(event): event.data = {taskId, assignedUserId}
startTaskMonitoring(event) ==
    /\ taskTimeouts' = MapSet(taskTimeouts, event.taskId,
           [assignedUserId |-> event.assignedUserId, startTime |-> clock,
            timeout |-> defaultTimeout])
    /\ taskOrder' = IF MapHas(taskTimeouts, event.taskId)
                    THEN taskOrder ELSE Append(taskOrder, event.taskId)
    /\ UNCHANGED monEmitted

\* MonitorAgent.stopTaskMonitoring(event)
stopTaskMonitoring(event) ==
    /\ IF MapHas(taskTimeouts, event.taskId)
       THEN /\ taskTimeouts' = MapDelete(taskTimeouts, event.taskId)
            /\ taskOrder' = SelectSeq(taskOrder, LAMBDA id : id # event.taskId)
       ELSE UNCHANGED <<taskTimeouts, taskOrder>>
    /\ UNCHANGED monEmitted

\* MonitorAgent.checkTaskTimeout(taskData)
checkTaskTimeout(taskData) ==
    IF ~MapHas(taskTimeouts, taskData.taskId)
    THEN FALSE
    ELSE clock - taskTimeouts[taskData.taskId].startTime
             > taskTimeouts[taskData.taskId].timeout

\* MonitorAgent.handleMonitorRequest(event): event.data = {taskId, assignee}
handleMonitorRequest(event) ==
    /\ IF checkTaskTimeout(event)
       THEN monEmitted' = Append(monEmitted,
                TimeoutEvent(event.taskId, event.assignedUserId,
                             "No activity detected", 0))
       ELSE UNCHANGED monEmitted
    /\ UNCHANGED <<taskTimeouts, taskOrder>>

\* mutant: the sweep compares with >= and takes entries that are at their deadline
timedOutTasks_AtDeadline ==
    SelectSeq(taskOrder,
              LAMBDA id : clock - taskTimeouts[id].startTime >= taskTimeouts[id].timeout)

\* the first loop of checkAllTasks: the entries whose elapsed time is over
timedOutTasks ==
    SelectSeq(taskOrder,
              LAMBDA id : clock - taskTimeouts[id].startTime > taskTimeouts[id].timeout)

\* MonitorAgent.checkAllTasks()
checkAllTasks ==
    IF taskOrder = <<>>
    THEN UNCHANGED <<taskTimeouts, taskOrder, monEmitted>>
    ELSE /\ monEmitted' = monEmitted \o
                [i \in 1..Len(timedOutTasks) |->
                    LET taskInfo == taskTimeouts[timedOutTasks[i]] IN
                    TimeoutEvent(timedOutTasks[i], taskInfo.assignedUserId,
                                 "Exceeded maximum processing time",
                                 clock - taskInfo.startTime)]
         /\ taskTimeouts' = [id \in DOMAIN taskTimeouts \ Range(timedOutTasks)
                                |-> taskTimeouts[id]]
         /\ taskOrder' = SelectSeq(taskOrder, LAMBDA id : id \notin Range(timedOutTasks))

MonitorEvent(k, taskId, user) == [k |-> k, taskId |-> taskId, assignedUserId |-> user]

\* the bus hands a task.assigned event to the monitor
TaskAssigned ==
    /\ \E id \in MonitorTaskIds, user \in UserIds :
          LET event == MonitorEvent("task.assigned", id, user) IN
          /\ monInput' = event
          /\ startTaskMonitoring(event)
    /\ UNCHANGED clock
    /\ UNCHANGED exceptMonitor

\* the bus hands a task.completed event to the monitor
TaskCompleted ==
    /\ \E id \in MonitorTaskIds :
          LET event == MonitorEvent("task.completed", id, "") IN
          /\ monInput' = event
          /\ stopTaskMonitoring(event)
    /\ UNCHANGED clock
    /\ UNCHANGED exceptMonitor

\* the bus hands a monitor.task event to the monitor
MonitorRequest ==
    /\ Len(monEmitted) < MaxTimeouts
    /\ \E id \in MonitorTaskIds, user \in UserIds :
          LET event == MonitorEvent("monitor.task", id, user) IN
          /\ monInput' = event
          /\ handleMonitorRequest(event)
    /\ UNCHANGED clock
    /\ UNCHANGED exceptMonitor

\* the setInterval callback of startPeriodicMonitoring runs
PeriodicSweep ==
    /\ monInput' = MonitorEvent("sweep", "", "")
    /\ checkAllTasks
    /\ UNCHANGED clock
    /\ UNCHANGED exceptMonitor

\* an hour passes
TimePasses ==
    /\ clock < MaxTime
    /\ clock' = clock + 1
    /\ monInput' = MonitorEvent("time", "", "")
    /\ UNCHANGED <<taskTimeouts, taskOrder, monEmitted>>
    /\ UNCHANGED exceptMonitor

MonitorStart ==
    /\ taskTimeouts = EmptyMap
    /\ taskOrder = <<>>
    /\ clock = 0
    /\ monEmitted = <<>>
    /\ monInput = MonitorEvent("none", "", "")

(***************************************************************************)
(* ReassignAgent                                                           *)
(*                                                                         *)
(* One registration per event type: the bus hands the next                *)
(* task.reassign.requested event to handleTaskReassignment only when the  *)
(* previous invocation has settled.  The matchingService is handed to the *)
(* constructor; what requestTaskReassignment settles with is chosen from  *)
(* ReassignResults.                                                        *)
(***************************************************************************)
\* what requestTaskReassignment settles with: {success: true, assignedUserId},
\* {success: false, reason}, undefined (MatchingService.requestTaskReassignment
\* returns nothing, and reading reassignmentResult.success then throws a
\* TypeError), or a rejection
ReassignResults == {"success", "failure", "undefined", "rejected"}
NoCall == [type |-> "none", corr |-> NoCorr, taskId |-> "", currentAssignee |-> "",
           reason |-> ""]

ReassignRequest(corr, taskId, currentAssignee, reason) ==
    [type |-> "task.reassign.requested", corr |-> corr, taskId |-> taskId,
     currentAssignee |-> currentAssignee, reason |-> reason]

\* the events ReassignAgent emits
ReassignOutcome(type, corr, taskId, previousAssignee, newAssignee, reason) ==
    [type |-> type, corr |-> corr, taskId |-> taskId,
     previousAssignee |-> previousAssignee, newAssignee |-> newAssignee,
     reason |-> reason]

\* ReassignAgent.handleTaskReassignment(event) after its await: event is the
\* request being handled, result what requestTaskReassignment settled with
handleTaskReassignment(event, result, newAssignee) ==
    IF result = "success"
    THEN raEmitted' = Append(raEmitted,
             ReassignOutcome("task.reassigned", event.corr, event.taskId,
                             event.currentAssignee, newAssignee, event.reason))
    ELSE IF result = "failure"
    THEN raEmitted' = Append(raEmitted,
             ReassignOutcome("reassignment.failed", event.corr, event.taskId,
                             "", "", "no_match"))
    ELSE UNCHANGED raEmitted

\* ReassignAgent.handleTaskDeclined(event): the request it emits goes on the
\* queue of the task.reassign.requested registration
handleTaskDeclined(event) ==
    raQueue' = Append(raQueue,
        ReassignRequest(event.corr, event.taskId, event.currentAssignee,
                        "User d eclined: busy"))

\* a component publishes task.reassign.requested
ReassignRequested ==
    /\ raInput.n < MaxReassignEvents
    /\ \E c \in CorrIds, user \in UserIds :
          /\ raQueue' = Append(raQueue, ReassignRequest(c, "T1", user, "skipped"))
          /\ raInput' = [k |-> "published", type |-> "task.reassign.requested",
                         n |-> raInput.n + 1]
    /\ UNCHANGED <<raCall, raEmitted>>
    /\ UNCHANGED exceptReassign

\* the bus hands a task.declined event to the agent
TaskDeclined ==
    /\ raInput.n < MaxReassignEvents
    /\ \E c \in CorrIds, user \in UserIds :
          /\ handleTaskDeclined(ReassignRequest(c, "T1", user, "busy"))
          /\ raInput' = [k |-> "event", type |-> "task.declined", n |-> raInput.n + 1]
    /\ UNCHANGED <<raCall, raEmitted>>
    /\ UNCHANGED exceptReassign

\* the bus hands the next task.reassign.requested event to the agent, which
\* runs up to `await this.matchingService.requestTaskReassignment(taskData)`
ReassignStarts ==
    /\ raCall = NoCall /\ raQueue # <<>>
    /\ raCall' = Head(raQueue)
    /\ raQueue' = Tail(raQueue)
    /\ raInput' = [k |-> "event", type |-> "task.reassign.requested", n |-> raInput.n]
    /\ UNCHANGED raEmitted
    /\ UNCHANGED exceptReassign

\* the promise of requestTaskReassignment settles and the handler goes on
ReassignReturns ==
    /\ raCall # NoCall
    /\ \E result \in ReassignResults, user \in UserIds :
          /\ handleTaskReassignment(raCall, result, user)
          /\ raInput' = [k |-> "result", type |-> result, n |-> raInput.n]
    /\ raCall' = NoCall
    /\ UNCHANGED raQueue
    /\ UNCHANGED exceptReassign

ReassignStart ==
    /\ raQueue = <<>>
    /\ raCall = NoCall
    /\ raEmitted = <<>>
    /\ raInput = [k |-> "none", type |-> "", n |-> 0]

(***************************************************************************)
(* Agent (base class of the four agents)                                   *)
(*                                                                         *)
(* setup() of every agent is a run of this.on(...) calls with no await in *)
(* it, so start() does all of its work before its first await and only    *)
(* logs afterwards.  stop() removes the registrations and runs cleanup()  *)
(* before its await and clears isActive after it.                          *)
(***************************************************************************)
\* the event types the agent's setup() subscribes to (ReassignAgent.setup)
AgentEventTypes == {"task.reassign.requested", "task.declined"}
\* how `await handler.call(this, event)` ends
HandlerOutcomes == {"returns"} \cup ThrownKinds

\* the agent.error event built in wrappedHandler's catch block
AgentErrorEvent(eventType, corr) ==
    [type |-> "agent.error", agentName |-> "ReassignAgent", eventType |-> eventType,
     error |-> "message", originalEvent |-> [type |-> eventType, corr |-> corr],
     corr |-> corr]

\* Agent.setup() of the subclass: this.on(eventType, handler) for each type.
\* on() returns at once when isActive is false; otherwise it registers a fresh
\* wrappedHandler with the bus and stores it under the event type
setup(active) ==
    IF ~active
    THEN UNCHANGED <<eventHandlers, busHandlers, nextHandler>>
    ELSE /\ busHandlers' = [t \in AgentEventTypes |-> busHandlers[t] \cup {nextHandler}]
         /\ eventHandlers' = [t \in AgentEventTypes |-> nextHandler]
         /\ nextHandler' = nextHandler + 1

\* Agent.start() up to `await this.setup()`
start ==
    IF isActive
    THEN UNCHANGED <<isActive, eventHandlers, busHandlers, nextHandler, starting>>
    ELSE /\ isActive' = TRUE
         /\ setup(TRUE)
         /\ starting' = starting + 1

\* Agent.stop() up to `await this.cleanup()`: eventBus.off for every stored
\* handler, then eventHandlers.clear()
stop ==
    IF ~isActive
    THEN UNCHANGED <<eventHandlers, busHandlers, stopping>>
    ELSE /\ busHandlers' = [t \in AgentEventTypes |->
                               IF MapHas(eventHandlers, t)
                               THEN busHandlers[t] \ {eventHandlers[t]}
                               ELSE busHandlers[t]]
         /\ eventHandlers' = EmptyMap
         /\ stopping' = stopping + 1

\* wrappedHandler after `await handler.call(this, event)`: the catch block
\* reads error.message before it builds the event, which itself throws a
\* TypeError out of wrappedHandler when the thrown value is null or undefined
wrappedHandler(run, outcome) ==
    IF outcome = "Error"
    THEN agentEmitted' = Append(agentEmitted, AgentErrorEvent(run.type, run.corr))
    ELSE UNCHANGED agentEmitted

NumCalls == agentInput.calls
NumEvents == agentInput.events
AgentStep(k, type, corr, calls, received) ==
    [k |-> k, type |-> type, corr |-> corr, calls |-> calls, events |-> received]

\* some component calls agent.start()
AgentStart ==
    /\ NumCalls < MaxAgentCalls
    /\ start
    /\ agentInput' = AgentStep("start", IF isActive THEN "active" ELSE "inactive", NoCorr,
                               NumCalls + 1, NumEvents)
    /\ UNCHANGED <<stopping, agentRuns, agentEmitted>>
    /\ UNCHANGED exceptAgent

\* start() goes on after its await: it logs and returns
AgentStartResumes ==
    /\ starting > 0
    /\ starting' = starting - 1
    /\ agentInput' = AgentStep("started", "", NoCorr, NumCalls, NumEvents)
    /\ UNCHANGED <<isActive, eventHandlers, busHandlers, nextHandler, stopping,
                   agentRuns, agentEmitted>>
    /\ UNCHANGED exceptAgent

\* some component calls agent.stop()
AgentStop ==
    /\ NumCalls < MaxAgentCalls
    /\ stop
    /\ agentInput' = AgentStep("stop", IF isActive THEN "active" ELSE "inactive", NoCorr,
                               NumCalls + 1, NumEvents)
    /\ UNCHANGED <<isActive, nextHandler, starting, agentRuns, agentEmitted>>
    /\ UNCHANGED exceptAgent

\* stop() goes on after its await: `this.isActive = false`
AgentStopResumes ==
    /\ stopping > 0
    /\ stopping' = stopping - 1
    /\ isActive' = FALSE
    /\ agentInput' = AgentStep("stopped", "", NoCorr, NumCalls, NumEvents)
    /\ UNCHANGED <<eventHandlers, busHandlers, nextHandler, starting, agentRuns,
                   agentEmitted>>
    /\ UNCHANGED exceptAgent

\* the bus hands an event to the wrappedHandlers registered for its type; each
\* runs up to `await handler.call(this, event)`
AgentReceives ==
    /\ NumEvents < MaxAgentEvents
    /\ \E t \in AgentEventTypes, c \in CorrIds :
          /\ busHandlers[t] # {}
          /\ \A r \in agentRuns : r.type # t
          /\ agentRuns' = agentRuns \cup
                 {[h |-> h, type |-> t, corr |-> c] : h \in busHandlers[t]}
          /\ agentInput' = AgentStep("event", t, c, NumCalls, NumEvents + 1)
    /\ UNCHANGED <<isActive, eventHandlers, busHandlers, nextHandler, starting, stopping,
                   agentEmitted>>
    /\ UNCHANGED exceptAgent

\* the promise of handler.call(this, event) settles
AgentHandlerSettles ==
    /\ \E run \in agentRuns, outcome \in HandlerOutcomes :
          /\ wrappedHandler(run, outcome)
          /\ agentRuns' = agentRuns \ {run}
          /\ agentInput' = AgentStep(outcome, run.type, run.corr, NumCalls, NumEvents)
    /\ UNCHANGED <<isActive, eventHandlers, busHandlers, nextHandler, starting, stopping>>
    /\ UNCHANGED exceptAgent

AgentConstructed ==
    /\ isActive = FALSE
    /\ eventHandlers = EmptyMap
    /\ busHandlers = [t \in AgentEventTypes |-> {}]
    /\ nextHandler = 1
    /\ starting = 0
    /\ stopping = 0
    /\ agentRuns = {}
    /\ agentEmitted = <<>>
    /\ agentInput = AgentStep("none", "", NoCorr, 0, 0)

(***************************************************************************)
(* MessageBroker                                                           *)
(*                                                                         *)
(* Outbound: the bus hands matching.request events to                     *)
(* handleMatchingRequest one at a time.  Inbound: RabbitMQConnection      *)
(* .consume wraps each bridge handler in a callback that parses the       *)
(* content, awaits the handler and settles the message.  Several          *)
(* deliveries may be waiting at that await at once, and the channel may   *)
(* be closed by the time a callback goes on.                               *)
(***************************************************************************)
\* how `await this.connection.publish(...)` ends: channel.publish returned true
\* or false, or something threw (createChannel, JSON.stringify, channel.publish)
PublishOutcomes == {"true", "false"} \cup ThrownKinds
NoPublish == [corr |-> NoCorr, data |-> "", connected |-> FALSE]
Queues == {"assign.agent.reply.queue", "form_submission_queue"}
\* msg.content: not JSON at all, a JSON object, a JSON string holding JSON
\* text, a JSON string holding other text
Contents == {"invalid", "object", "string-json", "string-text"}

BridgeEvent(type, corr, error, data) ==
    [type |-> type, corr |-> corr, error |-> error, data |-> data]

\* publishToQueue with a catch block that rethrows without reading the error
publishToQueue_Rethrows(connected, outcome) ==
    IF ~connected THEN "Error" ELSE outcome

\* MessageBroker.publishToQueue(...): what the awaited call ends with.  Its
\* catch block reads error.message and rethrows, so a null or undefined
\* rejection of connection.publish leaves it as a TypeError
publishToQueue(connected, outcome) ==
    IF ~connected THEN "Error"
    ELSE IF outcome \in ThrownKinds THEN "Error"
    ELSE outcome

\* MessageBroker.handleMatchingRequest(event) after its await: "resolved" or
\* "rejected" is how the handler's own promise ends
handleMatchingRequest(call, result) ==
    IF result \notin ThrownKinds
    THEN /\ bridgeEmitted' = Append(bridgeEmitted,
                BridgeEvent("matching.request.sent", call.corr, "", ""))
         /\ bridgeInput' = [k |-> "published", result |-> result, corr |-> call.corr,
                            handler |-> "resolved", n |-> bridgeInput.n]
    ELSE IF result = "Error"
    THEN /\ bridgeEmitted' = Append(bridgeEmitted,
                BridgeEvent("matching.request.failed", call.corr, "message", call.data))
         /\ bridgeInput' = [k |-> "published", result |-> result, corr |-> call.corr,
                            handler |-> "resolved", n |-> bridgeInput.n]
    ELSE /\ UNCHANGED bridgeEmitted
         /\ bridgeInput' = [k |-> "published", result |-> result, corr |-> call.corr,
                            handler |-> "rejected", n |-> bridgeInput.n]

\* the bridge handler of a queue, called with the parsed content: the event it
\* publishes and how its promise ends.  handleExternalResponse catches its own
\* failure and publishes external.response.error; handleFormSubmission does not
bridgeHandler(queueName, content, corr) ==
    IF queueName = "assign.agent.reply.queue"
    THEN IF content = "string-text"
         THEN [events |-> <<BridgeEvent("external.response.error", corr, "message", content)>>,
               result |-> "resolved"]
         ELSE [events |-> <<BridgeEvent("matching.response", corr, "", content)>>,
               result |-> "resolved"]
    ELSE IF content = "string-text"
         THEN [events |-> <<>>, result |-> "rejected"]
         ELSE [events |-> <<BridgeEvent("form.submitted", NoCorr, "", content)>>,
               result |-> "resolved"]

\* a callback that acknowledges whatever the handler did
settle_AlwaysAck(id, how) ==
    IF channelOpen
    THEN settlements' = [settlements EXCEPT ![id] = Append(@, "ack")]
    ELSE UNCHANGED settlements

\* channel.ack(msg) / channel.nack(msg, false, false): on a closed channel the
\* call throws and nothing is settled
settle(id, how) ==
    IF channelOpen
    THEN settlements' = [settlements EXCEPT ![id] = Append(@, how)]
    ELSE UNCHANGED settlements

\* MessageBroker.initialize()
BrokerInitialize ==
    /\ ~isConnected
    /\ isConnected' = TRUE
    /\ bridgeInput' = [k |-> "initialize", result |-> "", corr |-> NoCorr,
                       handler |-> "", n |-> bridgeInput.n]
    /\ UNCHANGED <<publishCall, bridgeEmitted, channelOpen, awaiting, settlements>>
    /\ UNCHANGED exceptBridge

\* MessageBroker.stop()
BrokerStop ==
    /\ isConnected
    /\ isConnected' = FALSE
    /\ bridgeInput' = [k |-> "stop", result |-> "", corr |-> NoCorr,
                       handler |-> "", n |-> bridgeInput.n]
    /\ UNCHANGED <<publishCall, bridgeEmitted, channelOpen, awaiting, settlements>>
    /\ UNCHANGED exceptBridge

\* the bus hands a matching.request event to handleMatchingRequest, which runs
\* up to `await this.publishToQueue(...)`
MatchingRequest ==
    /\ publishCall = NoPublish
    /\ bridgeInput.n < MaxBridgeRequests
    /\ \E c \in CorrIds, d \in FormData :
          /\ publishCall' = [corr |-> c, data |-> d, connected |-> isConnected]
          /\ bridgeInput' = [k |-> "matching.request", result |-> "", corr |-> c,
                             handler |-> "", n |-> bridgeInput.n + 1]
    /\ UNCHANGED <<isConnected, bridgeEmitted, channelOpen, awaiting, settlements>>
    /\ UNCHANGED exceptBridge

\* publishToQueue settles and handleMatchingRequest goes on
PublishSettles ==
    /\ publishCall # NoPublish
    /\ \E outcome \in PublishOutcomes :
          handleMatchingRequest(publishCall, publishToQueue(publishCall.connected, outcome))
    /\ publishCall' = NoPublish
    /\ UNCHANGED <<isConnected, channelOpen, awaiting, settlements>>
    /\ UNCHANGED exceptBridge

\* a message is delivered to a consumer: the callback of
\* RabbitMQConnection.consume parses msg.content and calls the bridge handler,
\* which runs to its end; a parse failure is nacked at once
ConsumerReceives ==
    /\ channelOpen
    /\ Len(settlements) < MaxMessages
    /\ \E queueName \in Queues, content \in Contents, c \in CorrIds :
        LET id == Len(settlements) + 1
            handled == bridgeHandler(queueName, content, c) IN
          /\ bridgeInput' = [k |-> "message", result |-> content, corr |-> c,
                             handler |-> queueName, n |-> bridgeInput.n]
          /\ IF content = "invalid"
             THEN /\ settlements' = Append(settlements, <<"nack">>)
                  /\ UNCHANGED <<awaiting, bridgeEmitted>>
             ELSE /\ settlements' = Append(settlements, <<>>)
                  /\ bridgeEmitted' = bridgeEmitted \o handled.events
                  /\ awaiting' = awaiting \cup
                         {[id |-> id, queue |-> queueName, content |-> content,
                           published |-> handled.events, result |-> handled.result]}
    /\ UNCHANGED <<isConnected, publishCall, channelOpen>>
    /\ UNCHANGED exceptBridge

\* the callback goes on after its await: ack when the handler resolved; in the
\* catch block (handler rejected, or ack threw) nack with requeue = false,
\* whose own failure is logged and swallowed
ConsumerSettles ==
    /\ \E cb \in awaiting :
          /\ settle(cb.id, IF cb.result = "resolved" THEN "ack" ELSE "nack")
          /\ awaiting' = awaiting \ {cb}
          /\ bridgeInput' = [k |-> "settled", result |-> cb.result, corr |-> NoCorr,
                             handler |-> cb.queue, n |-> bridgeInput.n]
    /\ UNCHANGED <<isConnected, publishCall, bridgeEmitted, channelOpen>>
    /\ UNCHANGED exceptBridge

\* the consumers' channel is closed (by the server, or with the connection)
ChannelCloses ==
    /\ channelOpen
    /\ channelOpen' = FALSE
    /\ bridgeInput' = [k |-> "channel.close", result |-> "", corr |-> NoCorr,
                       handler |-> "", n |-> bridgeInput.n]
    /\ UNCHANGED <<isConnected, publishCall, bridgeEmitted, awaiting, settlements>>
    /\ UNCHANGED exceptBridge

BridgeConstructed ==
    /\ isConnected = FALSE
    /\ publishCall = NoPublish
    /\ bridgeEmitted = <<>>
    /\ channelOpen = TRUE
    /\ awaiting = {}
    /\ settlements = <<>>
    /\ bridgeInput = [k |-> "none", result |-> "", corr |-> NoCorr, handler |-> "", n |-> 0]

(***************************************************************************)
(* RabbitMQConnection and the bridge's health check                        *)
(*                                                                         *)
(* init() and _handleReconnect() are async: each await is a point where   *)
(* other callbacks run.  The "error" and "close" listeners of a           *)
(* connection each call _handleReconnect().                                *)
(***************************************************************************)
\* rabbitMQConfig.retryMechanism.maxRetries
maxReconnectAttempts == 3
ChannelNames == {"matching-channel"}
ConnectionEvents == {"error", "close"}

\* a tail of _handleReconnect() that schedules one more attempt every time
scheduleReconnect_NoCap(conn, cc, ch) ==
    /\ connection' = conn
    /\ closingConnection' = cc
    /\ closingChannels' = ch
    /\ channels' = {}
    /\ reconnectAttempts' = reconnectAttempts + 1
    /\ reconnectTimers' = reconnectTimers + 1

\* the tail of _handleReconnect(): channels.clear(), then one more attempt is
\* scheduled unless the attempts are used up
scheduleReconnect(conn, cc, ch) ==
    /\ connection' = conn
    /\ closingConnection' = cc
    /\ closingChannels' = ch
    /\ channels' = {}
    /\ IF reconnectAttempts < maxReconnectAttempts
       THEN /\ reconnectAttempts' = reconnectAttempts + 1
            /\ reconnectTimers' = reconnectTimers + 1
       ELSE UNCHANGED <<reconnectAttempts, reconnectTimers>>

\* _handleReconnect() from the loop over this.channels on: it awaits
\* channel.close() when there is a channel, else it goes straight on
closeChannels(conn, cc, ch) ==
    IF channels # {}
    THEN /\ connection' = conn
         /\ closingConnection' = cc
         /\ closingChannels' = ch + 1
         /\ UNCHANGED <<channels, reconnectAttempts, reconnectTimers>>
    ELSE scheduleReconnect(conn, cc, ch)

\* _handleReconnect() from its first line; connectingNow is this.isConnecting
\* as the call finds it
handleReconnect(connectingNow) ==
    IF connectingNow
    THEN UNCHANGED <<connection, channels, reconnectAttempts, reconnectTimers,
                     closingConnection, closingChannels>>
    ELSE IF connection # 0
    THEN /\ closingConnection' = closingConnection + 1
         /\ UNCHANGED <<connection, channels, reconnectAttempts, reconnectTimers,
                         closingChannels>>
    ELSE closeChannels(0, closingConnection, closingChannels)

\* init() up to `await amqplib.connect(...)`
init ==
    IF connection # 0 \/ isConnecting
    THEN UNCHANGED <<isConnecting, connecting>>
    ELSE /\ isConnecting' = TRUE
         /\ connecting' = connecting + 1

\* MessageBroker.healthCheck()
healthCheck == IF isConnected THEN "healthy" ELSE "disconnected"

ConnStep(k, calls) == [k |-> k, calls |-> calls]

\* the application calls init(): at start-up, or from publish(), consume()
\* and createChannel() when this.connection is null
InitCalled ==
    /\ connInput.calls < MaxInitCalls
    /\ init
    /\ connInput' = ConnStep("init", connInput.calls + 1)
    /\ UNCHANGED <<connection, reconnectAttempts, channels, reconnectTimers, settingUp,
                   closingConnection, closingChannels, fired, connects, health>>
    /\ UNCHANGED exceptConnection /\ UNCHANGED bridgeVars

\* a reconnect timer fires: its callback calls init()
ReconnectTimerFires ==
    /\ reconnectTimers > 0
    /\ reconnectTimers' = reconnectTimers - 1
    /\ init
    /\ connInput' = ConnStep("timer", connInput.calls)
    /\ UNCHANGED <<connection, reconnectAttempts, channels, settingUp,
                   closingConnection, closingChannels, fired, connects, health>>
    /\ UNCHANGED exceptConnection /\ UNCHANGED bridgeVars

\* amqplib.connect resolves: init() stores the connection, resets the counter,
\* attaches the listeners and starts the _setup...() calls
ConnectSucceeds ==
    /\ connecting > 0
    /\ connects < MaxConnects
    /\ connecting' = connecting - 1
    /\ connects' = connects + 1
    /\ connection' = connects + 1
    /\ reconnectAttempts' = 0
    /\ isConnecting' = FALSE
    /\ settingUp' = settingUp + 1
    /\ connInput' = ConnStep("connected", connInput.calls)
    /\ UNCHANGED <<channels, reconnectTimers, closingConnection, closingChannels, fired,
                   health>>
    /\ UNCHANGED exceptConnection /\ UNCHANGED bridgeVars

\* amqplib.connect rejects: the catch block of init() calls _handleReconnect()
ConnectFails ==
    /\ connecting > 0
    /\ connecting' = connecting - 1
    /\ isConnecting' = FALSE
    /\ handleReconnect(FALSE)
    /\ connInput' = ConnStep("connect.failed", connInput.calls)
    /\ UNCHANGED <<settingUp, fired, connects, health>>
    /\ UNCHANGED exceptConnection /\ UNCHANGED bridgeVars

\* the _setup...() calls of init() end
SetupCompletes ==
    /\ settingUp > 0
    /\ settingUp' = settingUp - 1
    /\ connInput' = ConnStep("setup.done", connInput.calls)
    /\ UNCHANGED <<connection, isConnecting, reconnectAttempts, channels, reconnectTimers,
                   connecting, closingConnection, closingChannels, fired, connects, health>>
    /\ UNCHANGED exceptConnection /\ UNCHANGED bridgeVars

\* one of the _setup...() calls throws: the catch block of init() runs
SetupFails ==
    /\ settingUp > 0
    /\ settingUp' = settingUp - 1
    /\ isConnecting' = FALSE
    /\ handleReconnect(FALSE)
    /\ connInput' = ConnStep("setup.failed", connInput.calls)
    /\ UNCHANGED <<connecting, fired, connects, health>>
    /\ UNCHANGED exceptConnection /\ UNCHANGED bridgeVars

\* a connection emits "error" or "close": its listener calls _handleReconnect()
ConnectionEvent ==
    /\ \E c \in 1..connects, e \in ConnectionEvents :
          /\ <<c, e>> \notin fired
          /\ fired' = fired \cup {<<c, e>>}
          /\ connInput' = ConnStep(e, connInput.calls)
    /\ handleReconnect(isConnecting)
    /\ UNCHANGED <<isConnecting, connecting, settingUp, connects, health>>
    /\ UNCHANGED exceptConnection /\ UNCHANGED bridgeVars

\* _handleReconnect() goes on after `await this.connection.close()`
ConnectionClosed ==
    /\ closingConnection > 0
    /\ closeChannels(0, closingConnection - 1, closingChannels)
    /\ connInput' = ConnStep("closed", connInput.calls)
    /\ UNCHANGED <<isConnecting, connecting, settingUp, fired, connects, health>>
    /\ UNCHANGED exceptConnection /\ UNCHANGED bridgeVars

\* _handleReconnect() goes on after the loop that closes the channels
ChannelsClosed ==
    /\ closingChannels > 0
    /\ scheduleReconnect(connection, closingConnection, closingChannels - 1)
    /\ connInput' = ConnStep("channels.closed", connInput.calls)
    /\ UNCHANGED <<isConnecting, connecting, settingUp, fired, connects, health>>
    /\ UNCHANGED exceptConnection /\ UNCHANGED bridgeVars

\* createChannel(name) on a live connection stores a new channel
ChannelCreated ==
    /\ connection # 0
    /\ \E name \in ChannelNames :
          /\ name \notin channels
          /\ channels' = channels \cup {name}
    /\ connInput' = ConnStep("channel", connInput.calls)
    /\ UNCHANGED <<connection, isConnecting, reconnectAttempts, reconnectTimers, connecting,
                   settingUp, closingConnection, closingChannels, fired, connects, health>>
    /\ UNCHANGED exceptConnection /\ UNCHANGED bridgeVars

\* MessageBroker.initialize(), called once at start-up
BridgeInitialized ==
    /\ ~isConnected /\ bridgeInput.k = "none"
    /\ isConnected' = TRUE
    /\ bridgeInput' = [bridgeInput EXCEPT !.k = "initialize"]
    /\ UNCHANGED <<publishCall, bridgeEmitted, channelOpen, awaiting, settlements>>
    /\ UNCHANGED exceptConnection /\ UNCHANGED connectionVars

\* the application asks the bridge for its health
HealthChecked ==
    /\ health' = healthCheck
    /\ connInput' = ConnStep("health", connInput.calls)
    /\ UNCHANGED <<connection, isConnecting, reconnectAttempts, channels, reconnectTimers,
                   connecting, settingUp, closingConnection, closingChannels, fired,
                   connects>>
    /\ UNCHANGED exceptConnection /\ UNCHANGED bridgeVars

ConnectionConstructed ==
    /\ connection = 0
    /\ isConnecting = FALSE
    /\ reconnectAttempts = 0
    /\ channels = {}
    /\ reconnectTimers = 0
    /\ connecting = 0
    /\ settingUp = 0
    /\ closingConnection = 0
    /\ closingChannels = 0
    /\ fired = {}
    /\ connects = 0
    /\ health = "none"
    /\ connInput = ConnStep("none", 0)

(***************************************************************************)
(* EventStore, AuditService and the EventBus history                       *)
(*                                                                         *)
(* Application.initializeCoreModules registers the handler that calls     *)
(* eventStore.store(event) under the event type "*".  store() and audit() *)
(* have no await in them, so they run inside the emit that reaches them.  *)
(***************************************************************************)
StoreTypes == {"form.submitted", "*"}
\* types AuditService.setupEventListeners subscribes to, among StoreTypes
AuditedTypes == {"form.submitted"}
\* the type the Application registers the store handler under
StoreHandlerType == "*"

StoredEvent(id, type, corr) == [id |-> id, type |-> type, corr |-> corr]

\* array.splice(0, n): what is left
Splice(s, n) == SubSeq(s, n + 1, Len(s))

\* typeEvents.findIndex((e) => e.id === id), then splice(index, 1)
RemoveById(s, id) ==
    IF \E i \in 1..Len(s) : s[i].id = id
    THEN LET index == CHOOSE i \in 1..Len(s) :
                          s[i].id = id /\ \A j \in 1..(i - 1) : s[j].id # id
         IN  SubSeq(s, 1, index - 1) \o SubSeq(s, index + 1, Len(s))
    ELSE s

\* one turn of the loop over removedEvents in cleanupOldEvents, on one index
RemoveFromIndex(index, key, id) ==
    IF MapHas(index, key)
    THEN LET left == RemoveById(index[key], id)
         IN  IF left = <<>> THEN MapDelete(index, key) ELSE MapSet(index, key, left)
    ELSE index

RECURSIVE UpdateIndexes(_, _)
UpdateIndexes(st, removedEvents) ==
    IF removedEvents = <<>> THEN st
    ELSE LET event == Head(removedEvents) IN
         UpdateIndexes(
             [st EXCEPT !.byType = RemoveFromIndex(@, event.type, event.id),
                        !.byCorrelation = RemoveFromIndex(@, event.corr, event.id)],
             Tail(removedEvents))

\* a cleanup that keeps the oldest events and drops the newest
cleanupOldEvents_KeepsOldest(st) ==
    IF Len(st.events) <= maxEvents THEN st
    ELSE UpdateIndexes([st EXCEPT !.events = SubSeq(@, 1, maxEvents)],
                       SubSeq(st.events, maxEvents + 1, Len(st.events)))

\* EventStore.cleanupOldEvents()
cleanupOldEvents(st) ==
    IF Len(st.events) <= maxEvents THEN st
    ELSE LET eventsToRemove == Len(st.events) - maxEvents IN
         UpdateIndexes([st EXCEPT !.events = Splice(@, eventsToRemove)],
                       SubSeq(st.events, 1, eventsToRemove))

PushIndex(index, key, event) ==
    MapSet(index, key, Append(IF MapHas(index, key) THEN index[key] ELSE <<>>, event))

\* EventStore.store(event)
store(st, event) ==
    cleanupOldEvents([events |-> Append(st.events, event),
                      byType |-> PushIndex(st.byType, event.type, event),
                      byCorrelation |-> PushIndex(st.byCorrelation, event.corr, event)])

\* AuditService.cleanupOldLogs()
cleanupOldLogs(logs) ==
    IF Len(logs) <= maxLogs THEN logs ELSE Splice(logs, Len(logs) - maxLogs)

\* AuditService.audit(...): the service is started by the Application
audit(logs, event) == cleanupOldLogs(Append(logs, event))

\* EventBus.addToHistory(event), with its cap
pushHistory(h, event) ==
    LET pushed == Append(h, event) IN
    IF Len(pushed) > maxHistorySize THEN Tail(pushed) ELSE pushed

EventStoreNow == [events |-> events, byType |-> eventsByType,
                  byCorrelation |-> eventsByCorrelation]

SetEventStore(st) ==
    /\ events' = st.events
    /\ eventsByType' = st.byType
    /\ eventsByCorrelation' = st.byCorrelation

\* a component of the running Application emits an event: EventBus.emit adds it
\* to the history and calls the handlers registered under event.type
AppEmits ==
    /\ storeInput.n < MaxAppends
    /\ \E type \in StoreTypes, c \in CorrIds :
        LET event == StoredEvent(storeInput.n + 1, type, c) IN
          /\ eventHistory' = pushHistory(eventHistory, event)
          /\ IF type = StoreHandlerType
             THEN SetEventStore(store(EventStoreNow, event))
             ELSE UNCHANGED <<events, eventsByType, eventsByCorrelation>>
          /\ IF type \in AuditedTypes
             THEN auditLogs' = audit(auditLogs, event)
             ELSE UNCHANGED auditLogs
          /\ storeInput' = [by |-> "emit", event |-> event, n |-> storeInput.n + 1]
    /\ UNCHANGED exceptStore

\* eventStore.store(event) is called with an event
StoreCalled ==
    /\ storeInput.n < MaxAppends
    /\ \E type \in StoreTypes, c \in CorrIds :
        LET event == StoredEvent(storeInput.n + 1, type, c) IN
          /\ SetEventStore(store(EventStoreNow, event))
          /\ storeInput' = [by |-> "store", event |-> event, n |-> storeInput.n + 1]
    /\ UNCHANGED <<auditLogs, eventHistory>>
    /\ UNCHANGED exceptStore

StoreConstructed ==
    /\ events = <<>>
    /\ eventsByType = EmptyMap
    /\ eventsByCorrelation = EmptyMap
    /\ auditLogs = <<>>
    /\ eventHistory = <<>>
    /\ storeInput = [by |-> "none", event |-> StoredEvent(0, "", NoCorr), n |-> 0]

(***************************************************************************)
(* Event                                                                   *)
(*                                                                         *)
(* A JavaScript value as far as the constructor reads it: undefined, a    *)
(* string (v = 0 is the empty string), or a string returned by uuidv4().  *)
(* uuidv4() draws 122 random bits; the model takes the k-th call to       *)
(* return a string no other call returns and no caller supplies.          *)
(***************************************************************************)
undefined == [kind |-> "undefined", v |-> 0]
String(n) == [kind |-> "string", v |-> n]
uuidv4(k) == [kind |-> "uuid", v |-> k]

\* ToBoolean: undefined and "" are falsy, every other string is truthy
Truthy(x) == x.kind = "uuid" \/ (x.kind = "string" /\ x.v # 0)

\* a || b
Or(a, b) == IF Truthy(a) THEN a ELSE b

\* data && data.correlationId, for data that is undefined or an object
DataCorrelationId(data) == IF data.present THEN data.correlationId ELSE undefined

NoData == [present |-> FALSE, correlationId |-> undefined]
Payload(c) == [present |-> TRUE, correlationId |-> c]

\* the constructor that stores its arguments as they are
Event_AssignsArguments(id, data, correlationId, calls) ==
    [id |-> id, correlationId |-> correlationId, calls |-> calls]

\* constructor({type, data, correlationId, source, priority, timestamp, id});
\* calls is the number of uuidv4() calls made before this one
Event(id, data, correlationId, calls) ==
    LET afterId == IF Truthy(id) THEN calls ELSE calls + 1
        given   == Or(correlationId, DataCorrelationId(data))
    IN  [id            |-> Or(id, uuidv4(calls + 1)),
         correlationId |-> Or(given, uuidv4(afterId + 1)),
         calls         |-> IF Truthy(given) THEN afterId ELSE afterId + 1]

SuppliedIds == {undefined, String(0), String(1)}
SuppliedCorrelationIds == {undefined, String(2)}
SuppliedData == {NoData, Payload(undefined), Payload(String(0)), Payload(String(2))}

EventConstructed ==
    /\ Len(constructedEvents) < MaxConstructed
    /\ \E id \in SuppliedIds, correlationId \in SuppliedCorrelationIds,
          data \in SuppliedData :
          LET event == Event(id, data, correlationId, uuidCalls)
          IN  /\ constructedEvents' =
                     Append(constructedEvents,
                            [id |-> event.id, correlationId |-> event.correlationId,
                             args |-> [id |-> id, data |-> data,
                                       correlationId |-> correlationId]])
              /\ uuidCalls' = event.calls
    /\ UNCHANGED exceptEvent

EventStart ==
    /\ constructedEvents = << >>
    /\ uuidCalls = 0

(***************************************************************************)
(* Application: start(), shutdown() and the periodic sweeps                *)
(*                                                                         *)
(* start() and shutdown() are async; each action below runs one of them   *)
(* from one await to the next.  The interval callbacks run between such   *)
(* steps for as long as their interval has not been cleared.              *)
(***************************************************************************)
\* Object.entries(this.agents), in the order initializeAgents fills it
AgentNames == <<"assignAgent", "reassignAgent", "monitorAgent", "recoveryAgent">>
NumAgents == Len(AgentNames)

\* where a shutdown() call is: it returned at its isRunning guard, it waits at
\* `await agent.stop()` of agent 1..NumAgents, it waits at
\* `await this.components.messageBroker?.stop()`, or it is through
Returned == 0
AwaitsBroker == NumAgents + 1
Done == NumAgents + 2

\* MatchingService.stopCleanupInterval that leaves the interval as it is
stopCleanupInterval_Keeps(interval) == interval

\* MatchingService.stopCleanupInterval: the interval afterwards
stopCleanupInterval(interval) == IF interval THEN FALSE ELSE interval

\* MonitorAgent.stopPeriodicMonitoring: the interval afterwards
stopPeriodicMonitoring(interval) == IF interval THEN FALSE ELSE interval

\* Agent.stop() of agent number i up to `await this.cleanup()`: whether the
\* call got past the isActive guard, and the monitoring interval afterwards
\* (only MonitorAgent overrides cleanup)
stopAgent(i, active, interval) ==
    [passed   |-> active[AgentNames[i]],
     interval |-> IF active[AgentNames[i]] /\ AgentNames[i] = "monitorAgent"
                  THEN stopPeriodicMonitoring(interval)
                  ELSE interval]

\* messageBroker.stop() resolves or rejects
BrokerStopOutcomes == {"stopped", "throws"}

AppStep(by, k) == [by |-> by, k |-> k]

\* start() up to `await rabbitMQConnection.init()`
AppStartCalled ==
    /\ appPhase = "constructed"
    /\ appPhase' = "connecting"
    /\ appInput' = AppStep("start", 0)
    /\ UNCHANGED <<isRunning, agentsActive, cleanupInterval, monitoringInterval,
                   shutdownCalls, sweepRuns>>
    /\ UNCHANGED exceptApp

\* start() from one await to the next: initializeServices calls
\* startCleanupInterval, startAllComponents calls every agent's start(), whose
\* setup() in MonitorAgent calls startPeriodicMonitoring, and the last
\* resumption sets isRunning
AppStartResumes ==
    /\ appPhase \in {"connecting", "core", "integrations", "agents"}
    /\ appPhase' = CASE appPhase = "connecting"   -> "core"
                     [] appPhase = "core"         -> "integrations"
                     [] appPhase = "integrations" -> "agents"
                     [] appPhase = "agents"       -> "running"
    /\ cleanupInterval' = IF appPhase = "core" THEN TRUE ELSE cleanupInterval
    /\ agentsActive' = IF appPhase = "integrations"
                       THEN [a \in DOMAIN agentsActive |-> TRUE]
                       ELSE agentsActive
    /\ monitoringInterval' = IF appPhase = "integrations" THEN TRUE
                             ELSE monitoringInterval
    /\ isRunning' = IF appPhase = "agents" THEN TRUE ELSE isRunning
    /\ appInput' = AppStep("start", 0)
    /\ UNCHANGED <<shutdownCalls, sweepRuns>>
    /\ UNCHANGED exceptApp

\* an await of start() rejects: the catch block calls shutdown(), which
\* returns at once because isRunning is still false, and start() rethrows
AppStartFails ==
    /\ appPhase \in {"connecting", "core", "integrations"}
    /\ appPhase' = "failed"
    /\ appInput' = AppStep("startFailed", 0)
    /\ UNCHANGED <<isRunning, agentsActive, cleanupInterval, monitoringInterval,
                   shutdownCalls, sweepRuns>>
    /\ UNCHANGED exceptApp

\* shutdown() up to `await agent.stop()` of the first agent
ShutdownCalled ==
    /\ Len(shutdownCalls) < MaxShutdowns
    /\ LET k == Len(shutdownCalls) + 1
           s == stopAgent(1, agentsActive, monitoringInterval)
       IN  /\ appInput' = AppStep("shutdown", k)
           /\ IF ~isRunning
              THEN /\ shutdownCalls' = Append(shutdownCalls,
                                              [pc |-> Returned, passed |-> FALSE])
                   /\ UNCHANGED monitoringInterval
              ELSE /\ shutdownCalls' = Append(shutdownCalls,
                                              [pc |-> 1, passed |-> s.passed])
                   /\ monitoringInterval' = s.interval
    /\ UNCHANGED <<appPhase, isRunning, agentsActive, cleanupInterval, sweepRuns>>
    /\ UNCHANGED exceptApp

\* shutdown() from one await to the next: the agent's stop() clears isActive
\* and returns; then either the next agent's stop() is called, or the services
\* are stopped and messageBroker.stop() is awaited, or, after that, the bus
\* is cleared and isRunning reset (not when messageBroker.stop() rejected)
ShutdownResumes ==
    \E k \in 1..Len(shutdownCalls), outcome \in BrokerStopOutcomes :
        LET call == shutdownCalls[k]
        IN  /\ call.pc \in 1..AwaitsBroker
            /\ call.pc <= NumAgents => outcome = "stopped"
            /\ appInput' = AppStep("shutdownResumes", k)
            /\ IF call.pc <= NumAgents
               THEN LET stopped == IF call.passed
                                   THEN [agentsActive EXCEPT ![AgentNames[call.pc]] = FALSE]
                                   ELSE agentsActive
                    IN  /\ agentsActive' = stopped
                        /\ IF call.pc < NumAgents
                           THEN LET s == stopAgent(call.pc + 1, stopped, monitoringInterval)
                                IN  /\ shutdownCalls' =
                                           [shutdownCalls EXCEPT
                                               ![k] = [pc |-> call.pc + 1, passed |-> s.passed]]
                                    /\ monitoringInterval' = s.interval
                                    /\ UNCHANGED cleanupInterval
                           ELSE /\ shutdownCalls' =
                                       [shutdownCalls EXCEPT
                                           ![k] = [pc |-> AwaitsBroker, passed |-> FALSE]]
                                /\ cleanupInterval' = stopCleanupInterval(cleanupInterval)
                                /\ UNCHANGED monitoringInterval
                        /\ UNCHANGED isRunning
               ELSE /\ shutdownCalls' =
                           [shutdownCalls EXCEPT ![k] = [pc |-> Done, passed |-> FALSE]]
                    /\ isRunning' = IF outcome = "stopped" THEN FALSE ELSE isRunning
                    /\ UNCHANGED <<agentsActive, cleanupInterval, monitoringInterval>>
    /\ UNCHANGED <<appPhase, sweepRuns>>
    /\ UNCHANGED exceptApp

\* the setInterval callback of startCleanupInterval runs
CleanupIntervalFires ==
    /\ cleanupInterval
    /\ sweepRuns.cleanup < MaxSweeps
    /\ sweepRuns' = [sweepRuns EXCEPT !.cleanup = @ + 1]
    /\ appInput' = AppStep("cleanupSweep", 0)
    /\ UNCHANGED <<appPhase, isRunning, agentsActive, cleanupInterval, monitoringInterval,
                   shutdownCalls>>
    /\ UNCHANGED exceptApp

\* the setInterval callback of startPeriodicMonitoring runs
MonitoringIntervalFires ==
    /\ monitoringInterval
    /\ sweepRuns.monitor < MaxSweeps
    /\ sweepRuns' = [sweepRuns EXCEPT !.monitor = @ + 1]
    /\ appInput' = AppStep("monitorSweep", 0)
    /\ UNCHANGED <<appPhase, isRunning, agentsActive, cleanupInterval, monitoringInterval,
                   shutdownCalls>>
    /\ UNCHANGED exceptApp

AppConstructed ==
    /\ appPhase = "constructed"
    /\ isRunning = FALSE
    /\ agentsActive = [a \in Range(AgentNames) |-> FALSE]
    /\ cleanupInterval = FALSE
    /\ monitoringInterval = FALSE
    /\ shutdownCalls = << >>
    /\ sweepRuns = [cleanup |-> 0, monitor |-> 0]
    /\ appInput = AppStep("none", 0)

(***************************************************************************)
(* RecoveryAgent wired to the MatchingService                              *)
(*                                                                         *)
(* Application.initializeAgents hands the MatchingService to the          *)
(* RecoveryAgent, so `await this.matchingService.requestTaskRecovery(...)` *)
(* runs MatchingService.requestTaskRecovery.  That function has no await: *)
(* it runs inside the handler's synchronous part and its promise is       *)
(* resolved with undefined when it returns, so the rest of                 *)
(* initiateRecovery runs as a microtask, before any timer or new event.   *)
(* A matching.request it emits goes to the MessageBroker; the reply or    *)
(* publish failure that may come back carries the correlation id of that  *)
(* event, for which the MatchingService holds no entry, and is dropped.   *)
(***************************************************************************)
\* taskId / formId read from event data that has no such field
UndefinedId == "undefined"
\* a correlation id the Event constructor generated
GeneratedCorr == "generated"

\* the object literal initiateRecovery passes to requestTaskRecovery: it has
\* no correlationId and no data field
RecoveryRequestObject == [corr |-> NoCorr, data |-> ""]

\* new Event({correlationId, ...}).correlationId for data without one
EventCorr(correlationId) ==
    IF correlationId = NoCorr THEN GeneratedCorr ELSE correlationId

\* the MatchingService's fields, threaded through the calls of one run
MatchingHere ==
    [pending |-> pendingRequests, timers |-> timers, next |-> nextTimer,
     emitted |-> mEmitted]
MatchingBecome(m) ==
    /\ pendingRequests' = m.pending
    /\ timers' = m.timers
    /\ nextTimer' = m.next
    /\ mEmitted' = m.emitted

\* MatchingService.requestTaskRecovery(event)
requestTaskRecovery(m, event) ==
    LET correlationId == event.corr
        timeoutId == m.next
    IN  [pending |-> MapSet(m.pending, correlationId,
                            [timeoutId |-> timeoutId, data |-> event.data]),
         timers  |-> m.timers \cup
                        {[id |-> timeoutId, corr |-> correlationId, data |-> event.data]},
         next    |-> m.next + 1,
         emitted |-> Append(m.emitted,
                            NewEvent("matching.request", EventCorr(correlationId),
                                     event.data, ""))]

\* the setTimeout callback armed by requestTaskRecovery; t is the fired timer
recoveryTimeoutCallback(m, t) ==
    IF ~MapHas(m.pending, t.corr)
    THEN [m EXCEPT !.timers = @ \ {t}]
    ELSE [m EXCEPT !.timers = @ \ {t},
                   !.pending = MapDelete(@, t.corr),
                   !.emitted = Append(@, NewEvent("assignment.failed", EventCorr(t.corr),
                                                  t.data, "Timeout"))]

\* the MatchingService after a handler run of the RecoveryAgent that went
\* from `before` to `after`: requestTaskRecovery ran if a call was made
AfterRecoveryRun(m, before, after) ==
    IF after.calls # before.calls
    THEN requestTaskRecovery(m, RecoveryRequestObject)
    ELSE m

\* a failure event reaches the RecoveryAgent from outside the recovery: a
\* task.timeout of the MonitorAgent for a task, or an assignment.failed of the
\* MatchingService for an assignment request (its data has no formId)
WiredFailure ==
    /\ rCalls = {}
    /\ rEvents < MaxFailEvents
    /\ \E type \in {"task.timeout", "assignment.failed"}, t \in TaskIds \cup {UndefinedId} :
          LET event == Entry("event", type, t, "Timeout", 0)
              after == IF type = "task.timeout"
                       THEN handleTaskTimeout(Here, event)
                       ELSE handleAssignmentFailure(Here, event)
          IN  /\ type = "task.timeout" <=> t \in TaskIds
              /\ rEvents' = rEvents + 1
              /\ rInput' = event
              /\ Become(after)
              /\ MatchingBecome(AfterRecoveryRun(MatchingHere, Here, after))
    /\ UNCHANGED mInput
    /\ UNCHANGED exceptWired

\* initiateRecovery goes on after its await with the undefined that
\* requestTaskRecovery returned
WiredRecoveryReturns ==
    /\ \E call \in rCalls :
          /\ rInput' = Entry("result", "undefined", call.taskId, call.h,
                             call.attemptCount + 1)
          /\ Become(recoveryReturned(Here, call, "undefined"))
    /\ UNCHANGED <<rEvents, matchingVars>>
    /\ UNCHANGED exceptWired

\* a timer armed by requestTaskRecovery expires: its callback emits
\* assignment.failed, whose data has no formId, and the bus hands that event
\* to RecoveryAgent.handleAssignmentFailure inside the emit
WiredTimerExpires ==
    /\ rCalls = {}
    /\ rEvents < MaxFailEvents
    /\ \E t \in timers :
          LET expired == recoveryTimeoutCallback(MatchingHere, t)
              event == Entry("event", "assignment.failed", UndefinedId, "Timeout", 0)
              after == IF expired.emitted # mEmitted
                       THEN handleAssignmentFailure(Here, event)
                       ELSE Here
          IN  /\ mInput' = [type |-> "timeout", corr |-> t.corr, data |-> t.id,
                            reason |-> ""]
              /\ rInput' = IF expired.emitted # mEmitted THEN event
                           ELSE Entry("timer", "", UndefinedId, "", 0)
              /\ rEvents' = IF expired.emitted # mEmitted THEN rEvents + 1 ELSE rEvents
              /\ Become(after)
              /\ MatchingBecome(AfterRecoveryRun(expired, Here, after))
    /\ UNCHANGED exceptWired

(***************************************************************************)
(* MatchingService: the periodic sweep                                     *)
(*                                                                         *)
(* The sweep compares the age of an entry with requestTimeout, so these   *)
(* steps carry the time: a timer runs its callback at or after its due    *)
(* time (Node gives no upper bound on the delay), and the setInterval     *)
(* callback of startCleanupInterval may run at any time.  The process has *)
(* no uncaughtException handler: an exception that leaves a timer         *)
(* callback ends it.                                                       *)
(***************************************************************************)
\* this.requestTimeout: 20 s, the unit of mNow
requestTimeout == 1

\* the insertion order of a Map after a step that took it from `old` to `new`
\* (set() of a new key appends it, delete() removes the key)
OrderAfter(order, old, new) ==
    LET kept  == SelectSeq(order, LAMBDA c : c \in DOMAIN new)
        added == (DOMAIN new) \ (DOMAIN old)
    IN  IF added = {} THEN kept ELSE kept \o <<CHOOSE c \in added : TRUE>>

\* the bookkeeping that goes with a step of the MatchingService: timestamp is
\* set where the entry is set, and a timer is armed now
Timekeeping(setCorr) ==
    /\ pendingOrder' = OrderAfter(pendingOrder, pendingRequests, pendingRequests')
    /\ timestamps' = [c \in DOMAIN pendingRequests' |->
                         IF c = setCorr \/ c \notin DOMAIN timestamps
                         THEN mNow ELSE timestamps[c]]
    /\ armedAt' = [id \in {t.id : t \in timers'} |->
                      IF id \in DOMAIN armedAt THEN armedAt[id] ELSE mNow]

\* now - request.timestamp > this.requestTimeout
IsExpired(c) == mNow - timestamps[c] > requestTimeout

\* the entries the loop of cleanupExpiredRequests finds expired, in Map order
expiredRequests == SelectSeq(pendingOrder, IsExpired)

\* MatchingService.cleanupExpiredRequests(): at the first expired entry the
\* loop calls clearTimeout(request.timeoutId) and then request.reject(...);
\* an entry has the fields timeoutId, data and timestamp, so request.reject
\* is undefined and the call throws a TypeError out of the function
cleanupExpiredRequests ==
    IF expiredRequests = << >>
    THEN /\ UNCHANGED <<pendingRequests, timers>>
         /\ UNCHANGED uncaught
    ELSE /\ timers' = clearTimeout(timers, pendingRequests[expiredRequests[1]].timeoutId)
         /\ UNCHANGED pendingRequests
         /\ uncaught' = TRUE

SweepStep(by, corr, n) == [by |-> by, corr |-> corr, n |-> n]

\* the bus hands a form.submitted event to AssignAgent
SweepFormSubmitted ==
    /\ ~uncaught
    /\ NumRequests < MaxRequests
    /\ \E c \in CorrIds, d \in FormData :
          LET event == NewEvent("form.submitted", c, d, "") IN
          /\ mInput' = event
          /\ handleFormSubmission(event)
          /\ Timekeeping(c)
          /\ sweepInput' = SweepStep("request", c, sweepInput.n)
    /\ UNCHANGED <<mNow, uncaught>>
    /\ UNCHANGED exceptSweep

\* the bus hands a matching.response event to MatchingService
SweepMatchingResponse ==
    /\ ~uncaught
    /\ \E c \in CorrIds, d \in ReplyData :
          LET event == NewEvent("matching.response", c, d, "") IN
          /\ mInput' = event
          /\ handleMatchingResponse(event)
          /\ Timekeeping(NoCorr)
          /\ sweepInput' = SweepStep("response", c, sweepInput.n)
    /\ UNCHANGED <<mNow, uncaught>>
    /\ UNCHANGED exceptSweep

\* a timer that is due runs its callback
SweepTimerExpires ==
    /\ ~uncaught
    /\ \E t \in timers :
          /\ mNow - armedAt[t.id] >= requestTimeout
          /\ mInput' = [type |-> "timeout", corr |-> t.corr, data |-> t.id, reason |-> ""]
          /\ timeoutCallback(t)
          /\ Timekeeping(NoCorr)
          /\ sweepInput' = SweepStep("timeout", t.corr, sweepInput.n)
    /\ UNCHANGED <<mNow, uncaught>>
    /\ UNCHANGED exceptSweep

\* time passes
SweepTimePasses ==
    /\ ~uncaught
    /\ mNow < MaxTime
    /\ mNow' = mNow + 1
    /\ sweepInput' = SweepStep("time", NoCorr, sweepInput.n)
    /\ UNCHANGED <<timestamps, armedAt, pendingOrder, uncaught>>
    /\ UNCHANGED matchingVars
    /\ UNCHANGED exceptSweep

\* the setInterval callback of startCleanupInterval runs
CleanupSweep ==
    /\ ~uncaught
    /\ sweepInput.n < MaxSweeps
    /\ cleanupExpiredRequests
    /\ Timekeeping(NoCorr)
    /\ sweepInput' = SweepStep("sweep", NoCorr, sweepInput.n + 1)
    /\ UNCHANGED <<nextTimer, mEmitted, mInput, mNow>>
    /\ UNCHANGED exceptSweep

SweepStart ==
    /\ mNow = 0
    /\ timestamps = EmptyMap
    /\ armedAt = EmptyMap
    /\ pendingOrder = << >>
    /\ uncaught = FALSE
    /\ sweepInput = SweepStep("none", NoCorr, 0)

(***************************************************************************)
(* The correlation id along a causal chain                                 *)
(*                                                                         *)
(* Each step is one handler building the event it emits from the event    *)
(* (or the stored entry, message or timer) it was given; what is kept of  *)
(* the handler is the correlationId it passes to the Event constructor.   *)
(***************************************************************************)
\* new Event({type, correlationId, ...}) emitted because of `cause`; the data
\* of these events has a correlationId field only where it is also passed
Caused(type, correlationId, cause) ==
    [type |-> type, corr |-> EventCorr(correlationId), origin |-> cause.origin]

OfType(types) == {e \in chainEvents : e.type \in types}

\* a form.submitted event is emitted with correlation id c
ChainFormSubmitted ==
    /\ \E c \in CorrIds :
          chainEvents' = chainEvents \cup
              {[type |-> "form.submitted", corr |-> c, origin |-> c]}
    /\ UNCHANGED exceptChain

\* MatchingService.requestTaskAssignment(event): correlationId = event.correlationId
ChainRequest ==
    /\ \E e \in OfType({"form.submitted"}) :
          chainEvents' = chainEvents \cup {Caused("matching.request", e.corr, e)}
    /\ UNCHANGED exceptChain

\* MessageBroker.handleMatchingRequest(event): correlationId = event.correlationId
ChainPublish ==
    /\ \E e \in OfType({"matching.request"}),
          type \in {"matching.request.sent", "matching.request.failed"} :
          chainEvents' = chainEvents \cup {Caused(type, e.corr, e)}
    /\ UNCHANGED exceptChain

\* MessageBroker.handleExternalResponse: correlationId is that of the reply
\* message, which the matching engine copies from the request it answers
ChainResponse ==
    /\ \E e \in OfType({"matching.request.sent"}) :
          chainEvents' = chainEvents \cup {Caused("matching.response", e.corr, e)}
    /\ UNCHANGED exceptChain

\* MatchingService.handleMatchingResponse(event): correlationId = event.correlationId
ChainAssigned ==
    /\ \E e \in OfType({"matching.response"}) :
          chainEvents' = chainEvents \cup {Caused("task.assigned", e.corr, e)}
    /\ UNCHANGED exceptChain

\* MatchingService.handleRequestFailed(event) with correlationId =
\* event.data.correlationId, and the timeout callback of the request with the
\* correlationId of its closure
ChainAssignmentFailed ==
    /\ \E e \in OfType({"matching.request.failed", "matching.request"}) :
          chainEvents' = chainEvents \cup {Caused("assignment.failed", e.corr, e)}
    /\ UNCHANGED exceptChain

\* MonitorAgent.checkAllTasks(): the entry of the assigned task has no
\* correlation id and timeoutEvent is built without one
ChainTimeout ==
    /\ \E e \in OfType({"task.assigned"}) :
          chainEvents' = chainEvents \cup {Caused("task.timeout", NoCorr, e)}
    /\ UNCHANGED exceptChain

\* RecoveryAgent.initiateRecovery / escalateTask: taskRecoveredEvent and
\* taskEscalatedEvent are built without a correlationId
ChainRecovery ==
    /\ \E e \in OfType({"task.timeout", "assignment.failed"}),
          type \in {"task.recovered", "task.escalated"} :
          chainEvents' = chainEvents \cup {Caused(type, NoCorr, e)}
    /\ UNCHANGED exceptChain

ChainStart ==
    /\ chainEvents = {}

(***************************************************************************)
(* MessageBroker consumers across a reconnect                              *)
(*                                                                         *)
(* startConsuming() registers one consumer per queue with                  *)
(* RabbitMQConnection.consume, which creates the consumer's channel on the *)
(* connection of that moment.  A consumer receives messages as long as     *)
(* that connection lives.                                                  *)
(***************************************************************************)
\* the queues in the order startConsuming() consumes from them
ConsumedQueues == <<"assign.agent.reply.queue", "form_submission_queue">>

\* the channel startConsuming() names for each of them
ConsumerChannels == <<"matching-response-channel", "form-consumer-channel">>

\* the consumer of queue q whose channel belongs to the connection in use
LiveConsumer(q) ==
    connection # 0 /\ [queue |-> q, conn |-> connection] \in consumers

ResumeStep(k, n) == [k |-> k, n |-> n]

\* amqplib.connect resolves for a reconnect: init() goes on as after the
\* first connect
ConnectSucceedsAgain ==
    /\ connecting > 0
    /\ connects >= MaxConnects /\ connects < MaxConnects + MaxReconnects
    /\ connecting' = connecting - 1
    /\ connects' = connects + 1
    /\ connection' = connects + 1
    /\ reconnectAttempts' = 0
    /\ isConnecting' = FALSE
    /\ settingUp' = settingUp + 1
    /\ connInput' = ConnStep("connected", connInput.calls)
    /\ UNCHANGED <<channels, reconnectTimers, closingConnection, closingChannels, fired,
                   health>>
    /\ UNCHANGED exceptConnection /\ UNCHANGED bridgeVars

\* MessageBroker.startConsuming(), one consumeFromQueue call at a time; the
\* Application calls it once, after messageBroker.initialize() has connected.
\* RabbitMQConnection.consume creates the named channel on the connection in
\* use, stores it in this.channels and registers the consumer on it
StartConsuming ==
    /\ consumingStep < Len(ConsumedQueues)
    /\ connection # 0
    /\ channels' = channels \cup {ConsumerChannels[consumingStep + 1]}
    /\ consumers' = consumers \cup
           {[queue |-> ConsumedQueues[consumingStep + 1], conn |-> connection]}
    /\ consumingStep' = consumingStep + 1
    /\ resumeInput' = ResumeStep("consume", resumeInput.n)
    /\ UNCHANGED <<brokerQueues, inboundEmitted>>
    /\ UNCHANGED <<connection, isConnecting, reconnectAttempts, reconnectTimers, connecting,
                   settingUp, closingConnection, closingChannels, fired, connects, health,
                   connInput>>
    /\ UNCHANGED exceptConnection_Resume

\* a producer publishes a message to one of the queues
MessageArrives ==
    /\ resumeInput.n < MaxMessages
    /\ \E q \in Queues :
          brokerQueues' = [brokerQueues EXCEPT ![q] = @ + 1]
    /\ resumeInput' = ResumeStep("arrives", resumeInput.n + 1)
    /\ UNCHANGED <<consumers, consumingStep, inboundEmitted>>
    /\ UNCHANGED exceptResume

\* the broker delivers a waiting message to the queue's live consumer, whose
\* callback calls the bridge handler
MessageConsumed ==
    /\ \E q \in Queues, c \in CorrIds :
          /\ brokerQueues[q] > 0
          /\ LiveConsumer(q)
          /\ brokerQueues' = [brokerQueues EXCEPT ![q] = @ - 1]
          /\ inboundEmitted' = inboundEmitted \o bridgeHandler(q, "object", c).events
    /\ resumeInput' = ResumeStep("consumed", resumeInput.n)
    /\ UNCHANGED <<consumers, consumingStep>>
    /\ UNCHANGED exceptResume

ResumeStart ==
    /\ consumers = {}
    /\ consumingStep = 0
    /\ brokerQueues = [q \in Queues |-> 0]
    /\ inboundEmitted = <<>>
    /\ resumeInput = ResumeStep("none", 0)

(***************************************************************************)
(* Application.start() and the inbound messages                            *)
(*                                                                         *)
(* start() awaits, in this order, the connection, the core modules, the    *)
(* services, the construction of the agents, the external integrations     *)
(* (startConsuming registers the consumer of the reply queue and then the  *)
(* consumer of the form-submission queue) and only then the agents'        *)
(* start(), whose setup() subscribes their handlers.  A registered         *)
(* consumer receives messages at every await that follows.                 *)
(***************************************************************************)
StartAwaits ==
    <<"init", "core", "services", "agents", "engine", "consume.reply", "consume.form",
      "agents.start">>

StartupStep(k, n) == [k |-> k, n |-> n]

\* start() up to `await rabbitMQConnection.init()`
StartupStartCalled ==
    /\ startPc = 0
    /\ startPc' = 1
    /\ startupInput' = StartupStep("start", startupInput.n)
    /\ UNCHANGED <<registered, agentsSubscribed, backlog, startupEmitted>>
    /\ UNCHANGED exceptStartup

\* start() from one await to the next.  When a consumeFromQueue call is
\* through, its consumer is registered; when startConsuming is through,
\* startExternalIntegrations returns and startAllComponents calls every
\* agent's start(), which runs setup() and its this.on(...) calls at once
StartupResumes ==
    /\ startPc \in 1..Len(StartAwaits)
    /\ startPc' = startPc + 1
    /\ registered' =
           CASE StartAwaits[startPc] = "consume.reply" ->
                    registered \cup {"assign.agent.reply.queue"}
             [] StartAwaits[startPc] = "consume.form" ->
                    registered \cup {"form_submission_queue"}
             [] OTHER -> registered
    /\ agentsSubscribed' = (agentsSubscribed \/ StartAwaits[startPc] = "consume.form")
    /\ startupInput' = StartupStep("resumes", startupInput.n)
    /\ UNCHANGED <<backlog, startupEmitted>>
    /\ UNCHANGED exceptStartup

\* a producer publishes a message to one of the queues
StartupMessageArrives ==
    /\ startupInput.n < MaxMessages
    /\ \E q \in Queues : backlog' = [backlog EXCEPT ![q] = @ + 1]
    /\ startupInput' = StartupStep("arrives", startupInput.n + 1)
    /\ UNCHANGED <<startPc, registered, agentsSubscribed, startupEmitted>>
    /\ UNCHANGED exceptStartup

\* the broker delivers a waiting message to the registered consumer of its
\* queue: the callback calls the bridge handler, which emits its event
StartupMessageConsumed ==
    /\ \E q \in registered, c \in CorrIds :
          /\ backlog[q] > 0
          /\ backlog' = [backlog EXCEPT ![q] = @ - 1]
          /\ startupEmitted' = Append(startupEmitted,
                 [type |-> bridgeHandler(q, "object", c).events[1].type,
                  subscribed |-> agentsSubscribed])
    /\ startupInput' = StartupStep("consumed", startupInput.n)
    /\ UNCHANGED <<startPc, registered, agentsSubscribed>>
    /\ UNCHANGED exceptStartup

StartupStart ==
    /\ startPc = 0
    /\ registered = {}
    /\ agentsSubscribed = FALSE
    /\ backlog = [q \in Queues |-> 0]
    /\ startupEmitted = <<>>
    /\ startupInput = StartupStep("none", 0)

(***************************************************************************)
(* EventStore read queries                                                 *)
(*                                                                         *)
(* An event's timestamp is Date.now() at its construction.  The model's    *)
(* event ids count the events in the order of their construction, and      *)
(* EventsPerTick consecutive events share one millisecond, so that both    *)
(* equal and different timestamps occur.  A JavaScript array is a          *)
(* reference: getEvents sorts the array `events` refers to in place.       *)
(***************************************************************************)
timestamp(event) == event.id \div EventsPerTick

\* filters.type / filters.correlationId / filters.since / filters.limit left out
NoFilter == "undefined"
NoSince == 0
NoLimit == 0
Filters(type, correlationId, since, limit) ==
    [type |-> type, correlationId |-> correlationId, since |-> since, limit |-> limit]

\* where e goes in a list sorted newest first: behind every element that is
\* not older (Array.prototype.sort is stable)
InsertNewestFirst(list, e) ==
    LET older == {i \in 1..Len(list) : timestamp(list[i]) < timestamp(e)}
        at == IF older = {} THEN Len(list) + 1
              ELSE CHOOSE i \in older : \A j \in older : i <= j
    IN  SubSeq(list, 1, at - 1) \o <<e>> \o SubSeq(list, at, Len(list))

\* list.sort((a, b) => b.timestamp - a.timestamp)
RECURSIVE SortNewestFirst(_)
SortNewestFirst(list) ==
    IF list = <<>> THEN <<>>
    ELSE InsertNewestFirst(SortNewestFirst(SubSeq(list, 1, Len(list) - 1)),
                           list[Len(list)])

\* EventStore.getEvents(filters): the store afterwards and the array returned.
\* `events` starts as a copy of this.events; filters.type and
\* filters.correlationId make it refer to the index's own array (or to a new
\* empty one), filter() makes a new array, and sort() sorts whatever array
\* `events` then refers to
getEvents(st, filters) ==
    LET byCorr == filters.correlationId # NoFilter
        byType == filters.type # NoFilter
        selected ==
            IF byCorr
            THEN IF MapHas(st.byCorrelation, filters.correlationId)
                 THEN st.byCorrelation[filters.correlationId] ELSE <<>>
            ELSE IF byType
            THEN IF MapHas(st.byType, filters.type) THEN st.byType[filters.type] ELSE <<>>
            ELSE st.events
        copied == filters.since # NoSince
        filtered == IF copied
                    THEN SelectSeq(selected, LAMBDA e : timestamp(e) >= filters.since)
                    ELSE selected
        sorted == SortNewestFirst(filtered)
        after ==
            IF copied THEN st
            ELSE IF byCorr /\ MapHas(st.byCorrelation, filters.correlationId)
            THEN [st EXCEPT !.byCorrelation = MapSet(@, filters.correlationId, sorted)]
            ELSE IF ~byCorr /\ byType /\ MapHas(st.byType, filters.type)
            THEN [st EXCEPT !.byType = MapSet(@, filters.type, sorted)]
            ELSE st
    IN  [store  |-> after,
         result |-> IF filters.limit # NoLimit
                    THEN SubSeq(sorted, 1, IF Len(sorted) < filters.limit
                                           THEN Len(sorted) ELSE filters.limit)
                    ELSE sorted]

\* EventStore.getEventsByType(eventType, limit)
getEventsByType(st, eventType, limit) ==
    getEvents(st, Filters(eventType, NoFilter, NoSince, limit))

\* EventStore.getEventsByCorrelation(correlationId)
getEventsByCorrelation(st, correlationId) ==
    getEvents(st, Filters(NoFilter, correlationId, NoSince, NoLimit))

\* a query runs: the store and the returned array afterwards
Queried(kind, filters, outcome) ==
    /\ SetEventStore(outcome.store)
    /\ queryResult' = outcome.result
    /\ queryInput' = [kind |-> kind, filters |-> filters, n |-> queryInput.n + 1]
    /\ UNCHANGED <<auditLogs, eventHistory, storeInput>>
    /\ UNCHANGED exceptStore_Query

\* the default of the limit parameter of getEventsByType
DefaultLimit == 100

\* a caller queries getEvents(filters)
GetEvents ==
    /\ queryInput.n < MaxQueries
    /\ \E type \in StoreTypes \cup {NoFilter}, c \in CorrIds \cup {NoFilter},
          since \in {NoSince, 1}, limit \in {NoLimit, 1} :
           LET filters == Filters(type, c, since, limit) IN
           Queried("getEvents", filters, getEvents(EventStoreNow, filters))

\* a caller queries getEventsByType(eventType, limit)
GetEventsByType ==
    /\ queryInput.n < MaxQueries
    /\ \E type \in StoreTypes, limit \in {1, DefaultLimit} :
           Queried("getEventsByType", Filters(type, NoFilter, NoSince, limit),
                   getEventsByType(EventStoreNow, type, limit))

\* a caller queries getEventsByCorrelation(correlationId)
GetEventsByCorrelation ==
    /\ queryInput.n < MaxQueries
    /\ \E c \in CorrIds :
           Queried("getEventsByCorrelation", Filters(NoFilter, c, NoSince, NoLimit),
                   getEventsByCorrelation(EventStoreNow, c))

QueryStart ==
    /\ queryResult = <<>>
    /\ queryInput = [kind |-> "none", filters |-> Filters(NoFilter, NoFilter, NoSince, NoLimit),
                     n |-> 0]

\* every component as constructed
Start ==
    /\ MatchingStart /\ BusStart /\ RecoveryStart /\ MonitorStart /\ ReassignStart
    /\ AgentConstructed /\ BridgeConstructed /\ ConnectionConstructed /\ StoreConstructed /\ EventStart /\ AppConstructed /\ SweepStart /\ ChainStart /\ ResumeStart /\ StartupStart /\ QueryStart

InitMatching == Start

NextMatching ==
    \/ FormSubmitted
    \/ MatchingResponse
    \/ RequestFailed
    \/ TimerExpire

\* an armed timer fires unless it is cleared first
SpecMatching == InitMatching /\ [][NextMatching]_vars /\ WF_vars(TimerExpire)

InitBus == Start

NextBus ==
    \/ (Subscribe /\ UNCHANGED exceptBus)
    \/ (Unsubscribe /\ UNCHANGED exceptBus)
    \/ (Publish /\ UNCHANGED exceptBus)
    \/ (EmitStep /\ UNCHANGED exceptBus)
    \/ (EmitReturn /\ UNCHANGED exceptBus)
    \/ (HandlerPublish /\ UNCHANGED exceptBus)
    \/ (HandlerReturn /\ UNCHANGED exceptBus)
    \/ (HandlerSettles /\ UNCHANGED exceptBus)
    \/ (processHandlerQueue /\ UNCHANGED exceptBus)
    \/ (RunImmediate /\ UNCHANGED exceptBus)

SpecBus == InitBus /\ [][NextBus]_vars

InitRecovery == Start

NextRecovery ==
    \/ TaskTimeout
    \/ AssignmentFailure
    \/ ReassignmentFailure
    \/ RecoveryRequest
    \/ RecoveryReturns

SpecRecovery == InitRecovery /\ [][NextRecovery]_vars

InitMonitor == Start

NextMonitor ==
    \/ TaskAssigned
    \/ TaskCompleted
    \/ MonitorRequest
    \/ PeriodicSweep
    \/ TimePasses

SpecMonitor == InitMonitor /\ [][NextMonitor]_vars

InitReassign == Start

NextReassign ==
    \/ ReassignRequested
    \/ TaskDeclined
    \/ ReassignStarts
    \/ ReassignReturns

SpecReassign == InitReassign /\ [][NextReassign]_vars

InitAgent == Start

NextAgent ==
    \/ AgentStart
    \/ AgentStartResumes
    \/ AgentStop
    \/ AgentStopResumes
    \/ AgentReceives
    \/ AgentHandlerSettles

SpecAgent == InitAgent /\ [][NextAgent]_vars

InitBridge == Start

NextBridge ==
    \/ BrokerInitialize
    \/ BrokerStop
    \/ MatchingRequest
    \/ PublishSettles

SpecBridge == InitBridge /\ [][NextBridge]_vars

InitConsumers == Start

NextConsumers ==
    \/ ConsumerReceives
    \/ ConsumerSettles
    \/ ChannelCloses

SpecConsumers == InitConsumers /\ [][NextConsumers]_vars

InitConnection == Start

NextConnection ==
    \/ InitCalled
    \/ ReconnectTimerFires
    \/ ConnectSucceeds
    \/ ConnectFails
    \/ SetupCompletes
    \/ SetupFails
    \/ ConnectionEvent
    \/ ConnectionClosed
    \/ ChannelsClosed
    \/ ChannelCreated
    \/ BridgeInitialized
    \/ HealthChecked

SpecConnection == InitConnection /\ [][NextConnection]_vars

InitStore == Start

NextStore ==
    \/ AppEmits
    \/ StoreCalled

SpecStore == InitStore /\ [][NextStore]_vars

InitEvent == Start

NextEvent ==
    \/ EventConstructed

SpecEvent == InitEvent /\ [][NextEvent]_vars

InitApp == Start

NextApp ==
    \/ AppStartCalled
    \/ AppStartResumes
    \/ AppStartFails
    \/ ShutdownCalled
    \/ ShutdownResumes
    \/ CleanupIntervalFires
    \/ MonitoringIntervalFires

SpecApp == InitApp /\ [][NextApp]_vars

InitWired == Start

NextWired ==
    \/ WiredFailure
    \/ WiredRecoveryReturns
    \/ WiredTimerExpires

SpecWired == InitWired /\ [][NextWired]_vars

InitSweep == Start

NextSweep ==
    \/ SweepFormSubmitted
    \/ SweepMatchingResponse
    \/ SweepTimerExpires
    \/ SweepTimePasses
    \/ CleanupSweep

SpecSweep == InitSweep /\ [][NextSweep]_vars

InitChain == Start

NextChain ==
    \/ ChainFormSubmitted
    \/ ChainRequest
    \/ ChainPublish
    \/ ChainResponse
    \/ ChainAssigned
    \/ ChainAssignmentFailed
    \/ ChainTimeout
    \/ ChainRecovery

SpecChain == InitChain /\ [][NextChain]_vars

InitResume == Start

NextResume ==
    \/ InitCalled
    \/ ReconnectTimerFires
    \/ ConnectSucceeds
    \/ ConnectSucceedsAgain
    \/ SetupCompletes
    \/ ConnectionEvent
    \/ ConnectionClosed
    \/ ChannelsClosed
    \/ StartConsuming
    \/ MessageArrives
    \/ MessageConsumed

SpecResume == InitResume /\ [][NextResume]_vars


InitStartup == Start

NextStartup ==
    \/ StartupStartCalled
    \/ StartupResumes
    \/ StartupMessageArrives
    \/ StartupMessageConsumed

SpecStartup == InitStartup /\ [][NextStartup]_vars


InitQuery == Start

NextQuery ==
    \/ StoreCalled
    \/ GetEvents
    \/ GetEventsByType
    \/ GetEventsByCorrelation

SpecQuery == InitQuery /\ [][NextQuery]_vars


(***************************************************************************)
(* Properties of the EventBus                                              *)
(***************************************************************************)
\* the invocations of registration r's handler that have not settled
InFlight(r) == {co \in coros : co.reg = r /\ co.phase \in {"sync", "pending"}}

\* registration r's drain loop is running and will look at its queue again
Draining(r) == \E co \in coros : co.reg = r /\ co.phase \in {"sync", "pending", "resume"}

\* C4: each registered handler receives the events of its type published while
\* it is registered exactly once and in publish order, and no event of another
\* type: what it has been called with is always an initial part of what was
\* published for it, and once its queue has drained it has received all of it.
C4_FifoPerHandler ==
    \A r \in Regs :
        /\ Len(delivered[r]) <= Len(expected[r])
        /\ delivered[r] = SubSeq(expected[r], 1, Len(delivered[r]))
        /\ \A i \in 1..Len(delivered[r]) : history[delivered[r][i]].type = regType[r]
        /\ (Idle /\ ~processing[r]) => delivered[r] = expected[r]

\* C5: a handler H1 that threw or rejected on an event prevents no other
\* registration H2 from being invoked for that event or a later one, and H1's
\* own queue goes on delivering: events waiting in it still have a drain loop.
C5_FailureIsolated ==
    \A f \in failures :
        /\ \A h2 \in Regs \ {f.reg} :
              (Idle /\ ~processing[h2]) =>
                  \A e \in Range(expected[h2]) : e >= f.ev => e \in Range(delivered[h2])
        /\ (Idle /\ queue[f.reg] # <<>>) => Draining(f.reg)

\* C6: for every registration at most one invocation of its handler is in
\* flight at any time, and an event is handed to the handler only when no
\* earlier invocation is unsettled, also for events published from inside a
\* handler or while the queue is being drained.
C6_OneInFlight ==
    /\ [](\A r \in Regs : Cardinality(InFlight(r)) <= 1)
    /\ [][\A r \in Regs : delivered'[r] # delivered[r] => InFlight(r) = {}]_vars

\* C6 witness: a handler published an event of its own type while it was
\* handling the first one, and received it after that invocation had settled
C6_Witness ==
    /\ regType[1] = "a" /\ regType[2] = "none"
    /\ delivered[1] = <<1, 2>>
    /\ history[2].corr = history[1].corr
    /\ Cardinality(InFlight(1)) = 1

\* C7: while an invocation of one handler h1 stays unsettled, every event
\* published after the one it is handling has been delivered to every other
\* registration h2 whose own invocations have all settled.
C7_OthersStillServed ==
    \A h1 \in Regs, h2 \in Regs :
        \A co \in coros :
            (/\ h1 # h2 /\ co.reg = h1 /\ co.phase = "pending"
             /\ Idle /\ InFlight(h2) = {}
             /\ ~\E c2 \in coros : c2.reg = h2 /\ c2.phase = "resume")
            => \A e \in Range(expected[h2]) : e > co.ev => e \in Range(delivered[h2])

\* the handler.error events published for the failed invocation f
ErrorEventsFor(f) ==
    {i \in 1..Len(history) :
        /\ history[i].type = ErrorType
        /\ history[i].orig = f.ev /\ history[i].handler = f.reg}

\* the setImmediate callbacks still to run for the failed invocation f
ErrorPendingFor(f) ==
    {i \in 1..Len(immediates) : immediates[i].orig = f.ev /\ immediates[i].reg = f.reg}

\* C8: every handler invocation that throws or rejects produces exactly one
\* handler.error event naming the handler and the original event, with the
\* original event's correlation id, published from a setImmediate callback
\* after the invocation has returned (until it runs, the callback is pending).
C8_OneHandlerError ==
    \A f \in failures :
        /\ Cardinality(ErrorEventsFor(f)) + Cardinality(ErrorPendingFor(f)) = 1
        /\ \A i \in ErrorEventsFor(f) :
              /\ history[i].corr = history[f.ev].corr
              /\ i > f.ev
              /\ InFlight(f.reg) = {} \/ \A co \in InFlight(f.reg) : co.ev # f.ev

(***************************************************************************)
(* Properties of the RecoveryAgent                                         *)
(***************************************************************************)
\* positions in rTrace of the requestTaskRecovery calls for task t
Requests(t) ==
    {i \in 1..Len(rTrace) : rTrace[i].k = "request" /\ rTrace[i].task = t}

\* positions in rTrace of the events of a type emitted for task t
Emitted(type, t) ==
    {i \in 1..Len(rTrace) :
        rTrace[i].k = "emit" /\ rTrace[i].type = type /\ rTrace[i].task = t}

\* every request has succeeded (task.recovered), failed, or is still awaited
FailedRecoveries(t) ==
    Cardinality(Requests(t)) - Cardinality(Emitted("task.recovered", t))
        - Cardinality({c \in rCalls : c.taskId = t})

\* C9: with maxRecoveryAttempts = 3, the step in which the recovery of a task
\* fails for the third time leaves exactly one task.escalated event for that
\* task, and once its recovery has failed 3 times no step adds a
\* requestTaskRecovery call or another task.escalated event for it.
C9_EscalatedOnce ==
    [][\A t \in TaskIds :
          Emitted("task.recovered", t)' = {} =>
              /\ (FailedRecoveries(t) < maxRecoveryAttempts
                     /\ FailedRecoveries(t)' >= maxRecoveryAttempts) =>
                     Cardinality(Emitted("task.escalated", t)') = 1
              /\ FailedRecoveries(t) >= maxRecoveryAttempts =>
                     /\ Requests(t)' = Requests(t)
                     /\ Emitted("task.escalated", t)' = Emitted("task.escalated", t)
      ]_vars

\* the agent has handled only assignment.failed events for form t, n of them
\* one after the other, each started a recovery attempt, and none succeeded
FailedInSequence(t, n) ==
    /\ rEvents = n /\ rCalls = {} /\ Len(rTrace) >= n
    /\ \A k \in 1..n :
          /\ rTrace[k].k = "request" /\ rTrace[k].task = t
          /\ rTrace[k].type = "assignment_recovery"
    /\ Emitted("task.recovered", t) = {}

\* C10: after assignment.failed for the same form id three times in sequence
\* with every recovery attempt failing, the attempts were counted 1, 2, 3 and
\* the third failure emitted task.escalated with reason
\* "max_recovery_attempts_exceeded".
C10_ThirdFailureEscalates ==
    \A t \in TaskIds :
        FailedInSequence(t, maxRecoveryAttempts) =>
            /\ \A k \in 1..maxRecoveryAttempts : rTrace[k].n = k
            /\ Len(rTrace) = maxRecoveryAttempts + 1
            /\ rTrace[maxRecoveryAttempts + 1] =
                   Entry("emit", "task.escalated", t, MaxExceeded, 0)

\* the step delivers an event that starts initiateRecovery below the cap
StartsRecovery ==
    /\ rEvents' = rEvents + 1
    /\ getRecoveryAttemptCount(Here, rInput'.task) < maxRecoveryAttempts
    /\ ~(rInput'.type = "assignment.failed" /\ rInput'.reason \in nonRecoverableReasons)

\* the step resumes an awaited initiateRecovery with the given kind of result
RecoveryEnds(results) ==
    /\ rEvents' = rEvents /\ rCalls' # rCalls
    /\ rInput'.k = "result" /\ rInput'.type \in results

\* what a run below the cap does up to its await: one more attempt counted and
\* one requestTaskRecovery call issued and awaited
CountsAndRequests ==
    LET t == rInput'.task
        before == getRecoveryAttemptCount(Here, t)
    IN  /\ MapHas(recoveryAttempts', t) /\ recoveryAttempts'[t] = before + 1
        /\ Len(rTrace') = Len(rTrace) + 1
        /\ rTrace'[Len(rTrace')].k = "request"
        /\ rTrace'[Len(rTrace')].task = t
        /\ rTrace'[Len(rTrace')].n = before + 1
        /\ \E c \in rCalls' \ rCalls :
              /\ rCalls' = rCalls \cup {c}
              /\ c.taskId = t /\ c.attemptCount = before

\* the step appended exactly one event of the type for the task, and the
\* task's counter is cleared
EndsWith(type) ==
    /\ rTrace' = Append(rTrace, rTrace'[Len(rTrace')])
    /\ rTrace'[Len(rTrace')].k = "emit"
    /\ rTrace'[Len(rTrace')].type = type
    /\ rTrace'[Len(rTrace')].task = rInput'.task
    /\ ~MapHas(recoveryAttempts', rInput'.task)

There == [attempts |-> recoveryAttempts', calls |-> rCalls', trace |-> rTrace']

\* C12: shouldAttemptRecovery refuses each of the three non-recoverable codes,
\* and handling an assignment.failed event with such a reason issues no
\* requestTaskRecovery call, does not raise the attempt counter, and emits
\* task.escalated for the task in the same synchronous run.
C12_NonRecoverableEscalates ==
    /\ [](\A t \in TaskIds :
            \A reason \in {"invalid_form_data", "malformed_request",
                           "authentication_failure"} :
                ~shouldAttemptRecovery(Here, t, reason))
    /\ [][ (/\ rEvents' = rEvents + 1
            /\ rInput'.type = "assignment.failed"
            /\ rInput'.reason \in {"invalid_form_data", "malformed_request",
                                   "authentication_failure"})
           => /\ rCalls' = rCalls
              /\ getRecoveryAttemptCount(There, rInput'.task)
                     <= getRecoveryAttemptCount(Here, rInput'.task)
              /\ Len(rTrace') = Len(rTrace) + 1
              /\ SubSeq(rTrace', 1, Len(rTrace)) = rTrace
              /\ rTrace'[Len(rTrace')].k = "emit"
              /\ rTrace'[Len(rTrace')].type = "task.escalated"
              /\ rTrace'[Len(rTrace')].task = rInput'.task
         ]_vars

\* C12 witness: a task with an attempt awaited received assignment.failed with
\* a non-recoverable reason and was escalated at once, without a new request
C12_Witness ==
    /\ rInput.k = "event" /\ rInput.type = "assignment.failed"
    /\ rInput.reason \in nonRecoverableReasons
    /\ rTrace[Len(rTrace)].k = "emit"
    /\ rTrace[Len(rTrace)].type = "task.escalated"
    /\ rTrace[Len(rTrace)].task = rInput.task
    /\ Cardinality(Requests(rInput.task)) = 1
    /\ Cardinality(rCalls) = 1

(***************************************************************************)
(* Properties of the MonitorAgent                                          *)
(***************************************************************************)
\* the events the step added to monEmitted that are about task id
NewTimeouts(id) ==
    {i \in (Len(monEmitted) + 1)..Len(monEmitted') : monEmitted'[i].taskId = id}

\* C13: a run of the periodic sweep removes every monitored entry whose
\* elapsed time exceeded its deadline and emits exactly one task.timeout for
\* it; every entry whose elapsed time did not exceed its deadline is still
\* monitored, unchanged, and produced no event.
C13_SweepRemovesExpired ==
    [][ monInput'.k = "sweep" =>
          /\ Len(monEmitted') >= Len(monEmitted)
          /\ SubSeq(monEmitted', 1, Len(monEmitted)) = monEmitted
          /\ \A i \in (Len(monEmitted) + 1)..Len(monEmitted') :
                /\ monEmitted'[i].type = "task.timeout"
                /\ monEmitted'[i].taskId \in DOMAIN taskTimeouts
          /\ DOMAIN taskTimeouts' \subseteq DOMAIN taskTimeouts
          /\ \A id \in DOMAIN taskTimeouts :
                IF clock - taskTimeouts[id].startTime > taskTimeouts[id].timeout
                THEN /\ ~MapHas(taskTimeouts', id)
                     /\ Cardinality(NewTimeouts(id)) = 1
                     /\ \A i \in NewTimeouts(id) :
                           /\ monEmitted'[i].assignee = taskTimeouts[id].assignedUserId
                           /\ monEmitted'[i].elapsed = clock - taskTimeouts[id].startTime
                ELSE /\ MapHas(taskTimeouts', id)
                     /\ taskTimeouts'[id] = taskTimeouts[id]
                     /\ NewTimeouts(id) = {}
      ]_vars

\* C13 witness: the sweep has just timed out one task and kept another that
\* has reached, but not exceeded, its deadline
C13_Witness ==
    /\ monInput.k = "sweep"
    /\ Len(monEmitted) = 1
    /\ monEmitted[1].timeoutReason = "Exceeded maximum processing time"
    /\ ~MapHas(taskTimeouts, monEmitted[1].taskId)
    /\ \E id \in DOMAIN taskTimeouts :
          clock - taskTimeouts[id].startTime = taskTimeouts[id].timeout

(***************************************************************************)
(* Properties of the ReassignAgent                                         *)
(***************************************************************************)
\* the events the current step added to what the agent emitted
NewOutcomes == SubSeq(raEmitted', Len(raEmitted) + 1, Len(raEmitted'))

\* C14: when the reassignment request of a handled task.reassign.requested
\* event settles, the agent emits exactly one outcome event with the event's
\* correlation id: task.reassigned (previous assignee, new assignee, reason)
\* when the reassignment succeeded, reassignment.failed otherwise.
C14_OneOutcomePerRequest ==
    [][(raCall # NoCall /\ raCall' = NoCall) =>
          /\ Len(NewOutcomes) = 1
          /\ NewOutcomes[1].corr = raCall.corr
          /\ NewOutcomes[1].taskId = raCall.taskId
          /\ IF raInput'.type = "success"
             THEN /\ NewOutcomes[1].type = "task.reassigned"
                  /\ NewOutcomes[1].previousAssignee = raCall.currentAssignee
                  /\ NewOutcomes[1].newAssignee \in UserIds
                  /\ NewOutcomes[1].reason = raCall.reason
             ELSE NewOutcomes[1].type = "reassignment.failed"]_vars

(***************************************************************************)
(* Properties of the Agent base class                                      *)
(***************************************************************************)
\* no start() or stop() call is waiting at its await
NoCallInProgress == starting = 0 /\ stopping = 0

\* start() on an active agent and stop() on an inactive agent change nothing
GuardedCallsChangeNothing ==
    [][(/\ agentInput'.calls = agentInput.calls + 1
        /\ \/ agentInput'.k = "start" /\ isActive
           \/ agentInput'.k = "stop" /\ ~isActive)
       => UNCHANGED <<isActive, eventHandlers, busHandlers, starting, stopping>>]_vars

\* C15: whenever no start() or stop() call is in progress, the agent holds
\* exactly one EventBus registration per event type it handles if isActive is
\* true and no registration at all if isActive is false.
C15_RegistrationsFollowIsActive ==
    NoCallInProgress =>
        \A t \in AgentEventTypes :
            IF isActive
            THEN Cardinality(busHandlers[t]) = 1
            ELSE busHandlers[t] = {}

\* the events the current step added to what the agent emitted
NewAgentEvents == SubSeq(agentEmitted', Len(agentEmitted) + 1, Len(agentEmitted'))

\* C16: when an agent's handler throws on an event, exactly one agent.error
\* event (agent name, event type, error message, original event) with the
\* original event's correlation id is emitted, and the agent stays subscribed
\* to every event type, so it goes on processing later events.
C16_ThrowEmitsAgentError ==
    [][agentInput'.k \in ThrownKinds =>
          /\ NewAgentEvents =
                 <<AgentErrorEvent(agentInput'.type, agentInput'.corr)>>
          /\ UNCHANGED <<isActive, eventHandlers, busHandlers>>]_vars

(***************************************************************************)
(* Properties of the MessageBroker                                         *)
(***************************************************************************)
\* the events the current step added to what the bridge emitted
NewBridgeEvents == SubSeq(bridgeEmitted', Len(bridgeEmitted) + 1, Len(bridgeEmitted'))

Finished == {id \in 1..Len(settlements) : \A cb \in awaiting : cb.id # id}

\* C18 as claimed: every message delivered to a bridge consumer is settled
\* exactly once.
C18_SettledExactlyOnce ==
    \A id \in Finished : Len(settlements[id]) = 1

\* what the callback of message id did when it went on after its await
Settled(id, how) ==
    /\ id \in DOMAIN settlements
    /\ settlements[id] = <<>>
    /\ settlements'[id] = <<how>>

\* C18: every message delivered to a bridge consumer is settled at most once,
\* never both acknowledged and negatively acknowledged, and exactly once when
\* the channel is still open; it is acknowledged only after its content was
\* parsed and the handler, having published an Event, resolved; it is
\* negatively acknowledged when parsing fails or the handler rejects; on a
\* closed channel it stays unsettled.
C18_SettledAtMostOnce ==
    /\ [](/\ \A id \in 1..Len(settlements) : Len(settlements[id]) <= 1
          /\ \A cb \in awaiting : settlements[cb.id] = <<>>
          /\ channelOpen => \A id \in Finished : Len(settlements[id]) = 1)
    /\ [][/\ \A id \in DOMAIN settlements :
                /\ settlements'[id] # settlements[id] =>
                       channelOpen /\ (Settled(id, "ack") \/ Settled(id, "nack"))
                /\ Settled(id, "ack") =>
                       \E cb \in awaiting :
                           /\ cb.id = id /\ cb.content # "invalid"
                           /\ cb.result = "resolved" /\ Len(cb.published) = 1
                /\ Settled(id, "nack") =>
                       \E cb \in awaiting : cb.id = id /\ cb.result = "rejected"
          /\ \A cb \in awaiting \ awaiting' :
                channelOpen => Settled(cb.id, IF cb.result = "resolved" THEN "ack" ELSE "nack")
          /\ Len(settlements') > Len(settlements) =>
                settlements'[Len(settlements')] =
                    IF bridgeInput'.result = "invalid" THEN <<"nack">> ELSE <<>>]_vars

\* one message was acknowledged and another one, whose handler ended after
\* the channel was closed, is left unsettled
C18_Witness ==
    /\ ~channelOpen
    /\ awaiting = {}
    /\ \E i, j \in Finished : settlements[i] = <<"ack">> /\ settlements[j] = <<>>

(***************************************************************************)
(* Properties of the RabbitMQConnection                                    *)
(***************************************************************************)
\* no _handleReconnect() call is waiting at one of its awaits
NoReconnectInProgress == closingConnection = 0 /\ closingChannels = 0

ReconnectExhausted ==
    /\ connection = 0 /\ ~isConnecting /\ connecting = 0
    /\ reconnectAttempts = maxReconnectAttempts
    /\ reconnectTimers = 0

\* C20: a health check made once the transport is lost and the reconnect
\* attempts are exhausted reports "disconnected", and a health check reports
\* "healthy" only while the transport is connected.
C20_HealthFollowsTransport ==
    [][connInput'.k = "health" =>
          /\ ReconnectExhausted => health' = "disconnected"
          /\ health' = "healthy" => connection # 0]_vars

(***************************************************************************)
(* Properties of the EventStore, the audit log and the history buffer      *)
(***************************************************************************)
\* C21: every event published on the EventBus of the running Application,
\* whatever its type, is appended to the EventStore and can then be
\* retrieved both by its type and by its correlation id.
C21_EveryEventStored ==
    [][storeInput'.by = "emit" =>
          LET event == storeInput'.event IN
          /\ events' # <<>> /\ events'[Len(events')] = event
          /\ MapHas(eventsByType', event.type)
          /\ event \in Range(eventsByType'[event.type])
          /\ MapHas(eventsByCorrelation', event.corr)
          /\ event \in Range(eventsByCorrelation'[event.corr])]_vars

\* the newest cap entries of a list
KeepNewest(s, cap) == IF Len(s) <= cap THEN s ELSE SubSeq(s, Len(s) - cap + 1, Len(s))

\* the entries are in the order in which they were appended
InInsertionOrder(s) == \A i, j \in 1..Len(s) : i < j => s[i].id < s[j].id

\* C22: the EventStore, the audit log and the history buffer never hold more
\* entries than their cap; an append that exceeds the cap removes exactly the
\* oldest entries and the others keep their insertion order.
C22_OldestEvictedFirst ==
    /\ [](/\ Len(events) <= maxEvents
          /\ Len(auditLogs) <= maxLogs
          /\ Len(eventHistory) <= maxHistorySize
          /\ InInsertionOrder(events)
          /\ InInsertionOrder(auditLogs)
          /\ InInsertionOrder(eventHistory))
    /\ [][storeInput'.n = storeInput.n + 1 =>
          LET event == storeInput'.event
              emitted == storeInput'.by = "emit"
          IN
          /\ events' =
                IF ~emitted \/ event.type = StoreHandlerType
                THEN KeepNewest(Append(events, event), maxEvents) ELSE events
          /\ auditLogs' =
                IF emitted /\ event.type \in AuditedTypes
                THEN KeepNewest(Append(auditLogs, event), maxLogs) ELSE auditLogs
          /\ eventHistory' =
                IF emitted
                THEN KeepNewest(Append(eventHistory, event), maxHistorySize)
                ELSE eventHistory]_vars

\* each of the three lists is full and has lost its oldest entry
C22_Witness ==
    /\ Len(events) = maxEvents /\ events[1].id > 1
    /\ Len(auditLogs) = maxLogs /\ auditLogs[1].id > 1
    /\ Len(eventHistory) = maxHistorySize /\ eventHistory[1].id > 1
    /\ \E i \in 1..Len(events) : \A j \in 1..Len(auditLogs) : events[i].id < auditLogs[j].id

\* C23: a matching.response or matching.request.failed event whose
\* correlation id has no pending entry emits no event and leaves the
\* pending-request map and every armed timer unchanged.
C23_UnknownReplyDropped ==
    [][(/\ mInput'.type \in {"matching.response", "matching.request.failed"}
        /\ ~MapHas(pendingRequests, mInput'.corr))
       => UNCHANGED <<pendingRequests, timers, nextTimer, mEmitted>>]_vars

\* a failure report arrived for a request that had already timed out, while
\* another request is pending with its timer armed, and nothing was emitted
C23_Witness ==
    /\ mInput.type = "matching.request.failed"
    /\ ~MapHas(pendingRequests, mInput.corr)
    /\ Len(mEmitted) = 3
    /\ mEmitted[2].type = "assignment.failed" /\ mEmitted[2].corr = mInput.corr
    /\ mEmitted[2].reason = "Timeout"
    /\ mEmitted[3].type = "matching.request" /\ mEmitted[3].corr # mInput.corr
    /\ MapHas(pendingRequests, mEmitted[3].corr)
    /\ \E t \in timers : t.id = pendingRequests[mEmitted[3].corr].timeoutId

(***************************************************************************)
(* Properties of Event                                                     *)
(***************************************************************************)
\* the Event was given no id and no correlation id: neither as an argument
\* nor in its data (an empty string counts as none, as it does for ||)
NothingSupplied(e) ==
    /\ ~Truthy(e.args.id)
    /\ ~Truthy(e.args.correlationId)
    /\ ~Truthy(DataCorrelationId(e.args.data))

\* C24: every Event constructed with no id and no correlation id supplied has
\* a non-empty id and a non-empty correlationId, and its id and its
\* correlationId differ from those of every other Event constructed that way.
C24_GeneratedIdsDistinct ==
    \A i \in 1..Len(constructedEvents) :
        LET e == constructedEvents[i]
        IN  NothingSupplied(e) =>
                /\ Truthy(e.id)
                /\ Truthy(e.correlationId)
                /\ \A j \in 1..Len(constructedEvents) :
                       (j # i /\ NothingSupplied(constructedEvents[j])) =>
                           /\ constructedEvents[j].id # e.id
                           /\ constructedEvents[j].correlationId # e.correlationId

\* two Events constructed with nothing supplied, one of them with data that
\* has no correlationId and one without data, after an Event that inherited
\* the correlation id of its data
C24_Witness ==
    /\ Len(constructedEvents) = 3
    /\ constructedEvents[1].args.data = Payload(String(2))
    /\ constructedEvents[1].correlationId = String(2)
    /\ NothingSupplied(constructedEvents[2])
    /\ constructedEvents[2].args.data = Payload(undefined)
    /\ NothingSupplied(constructedEvents[3])
    /\ constructedEvents[3].args.data = NoData
    /\ constructedEvents[3].args.id = String(0)

(***************************************************************************)
(* Properties of the Application                                           *)
(***************************************************************************)
\* a shutdown() call that found the system running has completed
ShutdownCompleted ==
    \E k \in 1..Len(shutdownCalls) : shutdownCalls[k].pc = Done

\* C25: once Application.shutdown() has completed on a running system, the
\* cleanup interval of the MatchingService and the monitoring interval of the
\* MonitorAgent are cleared, and neither callback runs again.
C25_SweepsStoppedAfterShutdown ==
    /\ [](ShutdownCompleted => (~cleanupInterval /\ ~monitoringInterval))
    /\ [][ShutdownCompleted => sweepRuns' = sweepRuns]_vars

\* both sweeps ran while the system was running, a shutdown() completed while
\* a second, overlapping call is still waiting for an agent to stop
C25_Witness ==
    /\ sweepRuns.cleanup > 0 /\ sweepRuns.monitor > 0
    /\ Len(shutdownCalls) = 2
    /\ shutdownCalls[1].pc = Done
    /\ shutdownCalls[2].pc \in 1..NumAgents
    /\ ~cleanupInterval /\ ~monitoringInterval

(***************************************************************************)
(* Properties of the RecoveryAgent wired to the MatchingService            *)
(***************************************************************************)
\* what the agent did for a task, in order
TraceOf(task) == SelectSeq(rTrace, LAMBDA e : e.task = task)

\* the recovery of every task that was ever handled has ended: the last thing
\* the agent did for it was to emit task.recovered or task.escalated
RecoveryEnded ==
    /\ rTrace # << >>
    /\ \A task \in TaskIds \cup {UndefinedId} :
          LET did == TraceOf(task)
          IN  did # << >> =>
                  /\ did[Len(did)].k = "emit"
                  /\ did[Len(did)].type \in {"task.recovered", "task.escalated"}

\* a step in which a failure event arrives from outside the recovery
ExternalFailureArrives == rEvents' = rEvents + 1 /\ mInput' = mInput

\* C26: once the recovery of a task has ended in task.recovered or
\* task.escalated, the wired system makes no further recovery request and
\* emits no further matching.request or assignment.failed for it until a new
\* failure arrives from outside.
C26_QuietAfterTerminalEvent ==
    [][(RecoveryEnded /\ ~ExternalFailureArrives)
          => (mEmitted' = mEmitted /\ rTrace' = rTrace)]_vars

(***************************************************************************)
(* Properties of the MatchingService sweep                                 *)
(***************************************************************************)
\* the timer of the pending entry c is armed in the timer set ts
TimerArmed(ts, c) == \E t \in ts : t.id = pendingRequests[c].timeoutId

\* C27: a sweep that runs while a pending entry is older than the request
\* timeout returns without an error, cancels the timer of every such entry
\* and removes the entry, and leaves every younger entry and its timer alone.
C27_SweepRemovesExpired ==
    [][(sweepInput'.n = sweepInput.n + 1 /\ expiredRequests # << >>)
          => /\ ~uncaught'
             /\ \A c \in DOMAIN pendingRequests :
                   IF IsExpired(c)
                   THEN ~MapHas(pendingRequests', c) /\ ~TimerArmed(timers', c)
                   ELSE /\ MapHas(pendingRequests', c)
                        /\ pendingRequests'[c] = pendingRequests[c]
                        /\ TimerArmed(timers', c) = TimerArmed(timers, c)]_vars

(***************************************************************************)
(* Properties of the MonitorAgent entries                                  *)
(***************************************************************************)
\* C28: the entry of a task is deleted on every timeout detection, by the
\* periodic sweep and by the manual monitor.task check alike: after a step
\* that emitted task.timeout for a task, the task has no entry, so that one
\* monitored assignment yields at most one task.timeout.
C28_TimeoutDetectionDeletesEntry ==
    [][\A i \in (Len(monEmitted) + 1)..Len(monEmitted') :
           ~MapHas(taskTimeouts', monEmitted'[i].taskId)]_vars

(***************************************************************************)
(* Properties of the causal chain                                          *)
(***************************************************************************)
\* C29: every event of a causal chain carries the correlation id of the
\* form.submitted event the chain started from.
C29_CorrelationIdKept ==
    \A e \in chainEvents : e.corr = e.origin

C31_OneTimerPerEntry ==
    /\ \A c \in DOMAIN pendingRequests :
          Cardinality({t \in timers : t.corr = c}) = 1
    /\ \A t \in timers : MapHas(pendingRequests, t.corr)

(***************************************************************************)
(* Properties of the EventBus queues                                       *)
(***************************************************************************)
\* a processHandlerQueue call is running (or suspended at its await) for r
ActiveDrain(r) == \E co \in coros : co.reg = r /\ co.phase # "dead"

\* between steps a registration whose processing flag is false has an empty queue
FlagClearMeansEmpty ==
    Idle => \A r \in Regs : ~processing[r] => queue[r] = <<>>

\* C32: between steps a registration whose processing flag is false has an
\* empty queue, and no event waits in a queue that no processHandlerQueue
\* call is draining (so that it will be delivered once the handler's
\* invocations settle).
C32_NoQueueWithoutDrain ==
    /\ FlagClearMeansEmpty
    /\ Idle => \A r \in Regs : queue[r] # <<>> => ActiveDrain(r)

\* C33: once off() has removed a registration, its handler is not invoked
\* again, not even for events that were on its queue when off() was called:
\* every step that invokes a handler invokes one that is registered.
C33_NoDeliveryAfterOff ==
    [][\A r \in Regs : delivered'[r] # delivered[r] => Registered(r)]_vars

\* C34: a failing invocation leads to finitely many handler.error events even
\* when a subscriber of handler.error fails on every event it receives: the
\* failure of an invocation that was handling a handler.error event does not
\* schedule another handler.error event.
C34_ErrorsDoNotFeedBack ==
    [][\A f \in failures' \ failures :
           history[f.ev].type = ErrorType => immediates' = immediates]_vars

\* positions in trace of the requestTaskRecovery calls that used up the
\* attempt budget of task t (the counter reached maxRecoveryAttempts)
Exhaustions(trace, t) ==
    {i \in 1..Len(trace) :
        /\ trace[i].k = "request" /\ trace[i].task = t
        /\ trace[i].n = maxRecoveryAttempts}

\* the step escalates task t for its used-up budget, not for a
\* non-recoverable reason of an assignment.failed event
EscalatesForBudget(t) ==
    /\ Emitted("task.escalated", t)' # Emitted("task.escalated", t)
    /\ ~(rInput'.type = "assignment.failed" /\ rInput'.reason \in nonRecoverableReasons)

\* C35: when failure events for one task are handled by different handlers
\* whose runs interleave at the await on requestTaskRecovery, at most one
\* task.escalated event is emitted per exhaustion of the attempt budget: a
\* step that escalates the task finds an exhaustion that no earlier
\* task.escalated event has answered.
C35_OneEscalationPerExhaustion ==
    [][\A t \in TaskIds :
          EscalatesForBudget(t) =>
              \E i \in Exhaustions(rTrace', t) :
                  \A j \in Emitted("task.escalated", t) : j < i]_vars

(***************************************************************************)
(* Properties of a connection loss                                         *)
(***************************************************************************)
ListenerRunSteps == {"error", "close", "closed", "channels.closed"}

\* a reconnect is scheduled and no connect attempt is under way
ReconnectScheduled ==
    /\ reconnectAttempts >= 1 /\ reconnectTimers >= 1
    /\ connection = 0 /\ ~isConnecting

\* some connection has emitted both "error" and "close"
BothRaised == \E c \in 1..connects : \A e \in ConnectionEvents : <<c, e>> \in fired

\* at most one init() waits at `await amqplib.connect(...)`
OneConnectInFlight == connecting <= 1

\* C36: one loss of the connection, raising "error" and "close", counts one
\* reconnect attempt and arms one reconnect timer, and at most one connect
\* attempt is in flight: once both events are raised, a _handleReconnect()
\* run of the listeners counts no attempt and arms no timer when a reconnect
\* is already scheduled.
C36_OneReconnectPerLoss ==
    /\ []OneConnectInFlight
    /\ [][(ReconnectScheduled /\ BothRaised' /\ connInput'.k \in ListenerRunSteps) =>
              /\ reconnectAttempts' = reconnectAttempts
              /\ reconnectTimers' = reconnectTimers]_vars

(***************************************************************************)
(* Properties of the consumers across a reconnect                          *)
(***************************************************************************)
\* startConsuming() is through, a connection was lost, and init() has
\* connected again and finished its set-up
Reconnected ==
    /\ consumingStep = Len(ConsumedQueues)
    /\ connection > 1 /\ settingUp = 0

\* C37: after a connection loss followed by a successful reconnect the
\* consumers on the reply queue and on the form-submission queue are active
\* again, so that messages arriving from then on are still turned into
\* matching.response and form.submitted events.
C37_ConsumersActiveAfterReconnect ==
    Reconnected => \A q \in Queues : LiveConsumer(q)

(***************************************************************************)
(* Properties of Application.shutdown()                                    *)
(***************************************************************************)
\* the step in which a shutdown() call returns: call k of shutdownCalls, or
\* the call in the catch block of a failed start()
ShutdownReturns ==
    \/ appPhase' = "failed" /\ appPhase # "failed"
    \/ \E k \in 1..Len(shutdownCalls') :
          /\ shutdownCalls'[k].pc \in {Returned, Done}
          /\ k <= Len(shutdownCalls) => shutdownCalls[k].pc \notin {Returned, Done}

\* C39: when shutdown() returns, in every case including the shutdown that a
\* failed start() invokes after the services were created, nothing of the
\* core stays live: no interval is armed and no agent is active.
C39_NothingLiveAfterShutdown ==
    [][ShutdownReturns =>
           /\ ~cleanupInterval' /\ ~monitoringInterval'
           /\ \A a \in DOMAIN agentsActive' : ~agentsActive'[a]]_vars

(***************************************************************************)
(* Properties of Application.start()                                       *)
(***************************************************************************)
\* C38: during Application.start() no inbound broker message is turned into a
\* bus event before every agent has subscribed its handlers, so that a
\* form.submitted event always finds AssignAgent subscribed.
C38_NoEventBeforeSubscription ==
    \A i \in DOMAIN startupEmitted : startupEmitted[i].subscribed

(***************************************************************************)
(* Properties of the EventStore queries                                    *)
(***************************************************************************)
\* the step is a query
QueryStep == queryInput'.n = queryInput.n + 1

\* C40: the read queries getEvents, getEventsByType and
\* getEventsByCorrelation leave the store unchanged: after a query the stored
\* event sequence and the contents and order of every by-type and
\* by-correlation index list are as before.
C40_QueriesLeaveStoreUnchanged ==
    [][QueryStep =>
           /\ events' = events
           /\ eventsByType' = eventsByType
           /\ eventsByCorrelation' = eventsByCorrelation]_vars

(***************************************************************************)
(* Properties of the MatchingService                                       *)
(***************************************************************************)
IsTerminal(e) == e.type \in {"task.assigned", "assignment.failed"}

\* the correlation ids with an unresolved request after the events of log
RECURSIVE PendingAfter(_)
PendingAfter(log) ==
    IF log = <<>> THEN {}
    ELSE LET e == log[Len(log)]
             before == PendingAfter(SubSeq(log, 1, Len(log) - 1))
         IN  IF e.type = "matching.request" THEN before \cup {e.corr}
             ELSE IF IsTerminal(e) THEN before \ {e.corr}
             ELSE before

\* every terminal event resolves a request that had no terminal event yet, and
\* the requests without a terminal event are exactly the pending entries
OneTerminalPerRequest ==
    /\ \A i \in 1..Len(mEmitted) :
          IsTerminal(mEmitted[i]) =>
              mEmitted[i].corr \in PendingAfter(SubSeq(mEmitted, 1, i - 1))
    /\ PendingAfter(mEmitted) = DOMAIN pendingRequests

LastEmitted == mEmitted[Len(mEmitted)]

C2_TimeoutOnce ==
    [][ /\ (mInput'.type = "timeout" /\ MapHas(pendingRequests, mInput'.corr)) =>
              /\ Len(mEmitted') = Len(mEmitted) + 1
              /\ SubSeq(mEmitted', 1, Len(mEmitted)) = mEmitted
              /\ mEmitted'[Len(mEmitted')].type = "assignment.failed"
              /\ mEmitted'[Len(mEmitted')].reason = "Timeout"
              /\ mEmitted'[Len(mEmitted')].corr = mInput'.corr
              /\ ~MapHas(pendingRequests', mInput'.corr)
        /\ (mInput'.type = "timeout" /\ ~MapHas(pendingRequests, mInput'.corr)) =>
              /\ mEmitted' = mEmitted
              /\ pendingRequests' = pendingRequests
        /\ mInput'.type = "timeout" =>
              /\ \E t \in timers : t.id = mInput'.data /\ timers' = timers \ {t}
        /\ \A t \in timers' \ timers : t.id = nextTimer /\ nextTimer' > nextTimer
      ]_vars

\* C2 witness: a timer expired for a pending request and produced the Timeout
C2_Witness ==
    /\ mInput.type = "timeout"
    /\ Len(mEmitted) > 0
    /\ LastEmitted.reason = "Timeout"
    /\ LastEmitted.corr = mInput.corr
    /\ ~MapHas(pendingRequests, mInput.corr)

\* C3: handling form.submitted records a pending entry under the event's
\* correlation id with an armed timer and emits matching.request with that id
\* and payload; handling a matching.response for a pending id cancels the
\* entry's timer, removes the entry and emits task.assigned with the reply
\* payload and the same id.
C3_RequestReply ==
    [][ /\ mInput'.type = "form.submitted" =>
              /\ mEmitted' = Append(mEmitted,
                    NewEvent("matching.request", mInput'.corr, mInput'.data, ""))
              /\ MapHas(pendingRequests', mInput'.corr)
              /\ pendingRequests'[mInput'.corr].data = mInput'.data
              /\ \E t \in timers' \ timers :
                    /\ t.id = pendingRequests'[mInput'.corr].timeoutId
                    /\ t.corr = mInput'.corr
        /\ (mInput'.type = "matching.response"
              /\ MapHas(pendingRequests, mInput'.corr)) =>
              /\ mEmitted' = Append(mEmitted,
                    NewEvent("task.assigned", mInput'.corr, mInput'.data, ""))
              /\ ~MapHas(pendingRequests', mInput'.corr)
              /\ \A t \in timers' : t.id # pendingRequests[mInput'.corr].timeoutId
      ]_vars

\* C3 witness: a request was answered and task.assigned carries the reply
C3_Witness ==
    /\ mInput.type = "matching.response"
    /\ Len(mEmitted) >= 2
    /\ LastEmitted = NewEvent("task.assigned", mInput.corr, mInput.data, "")
    /\ \E i \in 1..Len(mEmitted) :
          mEmitted[i].type = "matching.request" /\ mEmitted[i].corr = mInput.corr
    /\ ~MapHas(pendingRequests, mInput.corr)


====
